---- MODULE Spec2Model ----
(***************************************************************************)
(* ICT contract analyzer (v3.1): the response-recovery and scoring         *)
(* pipeline.  parseAIResponse -> validateCriticalRequirements ->           *)
(* transformToFrontendFormat, with calculateScoreFromItems and the v3.0    *)
(* requirement catalog.                                                    *)
(*                                                                         *)
(* Text is modelled as a sequence of lexemes: the characters the parser    *)
(* and its regular expressions tell apart (quote, backslash, braces,       *)
(* brackets, comma, colon, white space, the code fence) each as one       *)
(* lexeme, and every run of other characters (a key name, a status word,   *)
(* an id, a number, a piece of prose) as one word lexeme.  A JavaScript    *)
(* string value is the sequence of its lexemes.                            *)
(***************************************************************************)
EXTENDS Integers, Sequences, FiniteSets, TLC

\* ------------------------------------------------------------------------
\* Lexemes
\* ------------------------------------------------------------------------
QUOTE == "\""
BSLASH == "\\"
\* the three backquotes that open or close a fenced code block
FENCE == "<fence>"
WS == " "
NEWLINE == "NL"
LBRACE == "{"
RBRACE == "}"
LBRACK == "["
RBRACK == "]"
COMMA == ","
COLON == ":"

\* ------------------------------------------------------------------------
\* JavaScript values (the result of JSON.parse, and the objects built from
\* it).  One record shape for every value so that any two compare:
\*   t    : "undef" | "null" | "bool" | "num" | "str" | "arr" | "obj"
\*   n2   : twice the number (scores may be fractional by halves); 0/1 of bool
\*   s    : the string
\*   keys : the property names of an object, in insertion order
\*   kids : the elements of an array, or the property values of an object
\* ------------------------------------------------------------------------
JV(t, n2, s, keys, kids) == [t |-> t, n2 |-> n2, s |-> s, keys |-> keys, kids |-> kids]
Undef == JV("undef", 0, <<>>, <<>>, <<>>)
JNull == JV("null", 0, <<>>, <<>>, <<>>)
JBool(b) == JV("bool", IF b THEN 1 ELSE 0, <<>>, <<>>, <<>>)
JNum2(n2) == JV("num", n2, <<>>, <<>>, <<>>)
JNum(n) == JNum2(2 * n)
JStr(s) == JV("str", 0, s, <<>>, <<>>)
JArr(kids) == JV("arr", 0, <<>>, <<>>, kids)
JObj(keys, kids) == JV("obj", 0, <<>>, keys, kids)
EmptyObj == JObj(<<>>, <<>>)

\* JavaScript truthiness (the operand of ||, && and ?:)
Truthy(v) ==
  CASE v.t = "undef" -> FALSE
    [] v.t = "null" -> FALSE
    [] v.t = "bool" -> v.n2 = 1
    [] v.t = "num" -> v.n2 # 0
    [] v.t = "str" -> v.s # <<>>
    [] OTHER -> TRUE

\* a || b
OrElse(a, b) == IF Truthy(a) THEN a ELSE b

IndexOfKey(keys, k) ==
  IF \E i \in 1..Len(keys) : keys[i] = k
  THEN CHOOSE i \in 1..Len(keys) : keys[i] = k /\ \A j \in 1..(i - 1) : keys[j] # k
  ELSE 0

\* v.k : reading a property.  Reading a property of null or undefined
\* throws a TypeError (PropThrows); of any other value without that
\* property it is undefined.
PropThrows(v) == v.t \in {"undef", "null"}
Prop(v, k) ==
  IF v.t = "obj" /\ IndexOfKey(v.keys, k) # 0
  THEN v.kids[IndexOfKey(v.keys, k)]
  ELSE Undef

\* { ...o, k: x } on an object: an existing key keeps its place
SetProp(o, k, x) ==
  IF IndexOfKey(o.keys, k) # 0
  THEN JObj(o.keys, [o.kids EXCEPT ![IndexOfKey(o.keys, k)] = x])
  ELSE JObj(Append(o.keys, k), Append(o.kids, x))

IsStr(v, s) == v.t = "str" /\ v.s = s

\* ------------------------------------------------------------------------
\* String conversion of a value (a template literal, String(x))
\* ------------------------------------------------------------------------
\* The decimal text of a number held as twice its value
NumText(n2) ==
  IF n2 % 2 = 0 THEN ToString(n2 \div 2)
  ELSE IF n2 > 0 THEN ToString(n2 \div 2) \o ".5"
  ELSE IF n2 = -1 THEN "-0.5"
  ELSE ToString((n2 + 1) \div 2) \o ".5"

RECURSIVE ToStr(_)
RECURSIVE JoinKids(_, _)
\* Array.prototype.join(","): null and undefined elements give nothing
JoinKids(kids, n) ==
  IF n = 0 THEN <<>>
  ELSE LET last == IF kids[n].t \in {"undef", "null"} THEN <<>> ELSE ToStr(kids[n])
       IN  IF n = 1 THEN last ELSE JoinKids(kids, n - 1) \o <<COMMA>> \o last
ToStr(v) ==
  CASE v.t = "str" -> v.s
    [] v.t = "undef" -> <<"undefined">>
    [] v.t = "null" -> <<"null">>
    [] v.t = "bool" -> IF v.n2 = 1 THEN <<"true">> ELSE <<"false">>
    [] v.t = "num" -> <<NumText(v.n2)>>
    [] v.t = "arr" -> JoinKids(v.kids, Len(v.kids))
    [] OTHER -> <<"[object Object]">>

\* ------------------------------------------------------------------------
\* The requirement catalog v3.0 (35 entries) and its lookup helpers
\* ------------------------------------------------------------------------
CHECKLIST == <<
  [id |-> <<"I.1">>, section |-> "I", name |-> <<"Contrat ecrit unique">>,
   reference |-> <<"DORA 30.1 | EBA GL 74 | FR Art.238b">>, criticality |-> "MINOR"],
  [id |-> <<"I.2">>, section |-> "I", name |-> <<"Description des services TIC et gouvernance de la sous-traitance">>,
   reference |-> <<"DORA 30.2(a) | EBA GL 74, 75c-d">>, criticality |-> "MAJOR"],
  [id |-> <<"I.3">>, section |-> "I", name |-> <<"Localisation des services et donnees + notification de changement">>,
   reference |-> <<"DORA 30.2(b) | EBA GL 75f">>, criticality |-> "MAJOR"],
  [id |-> <<"I.4">>, section |-> "I", name |-> <<"Protection des donnees (Disponibilite, Authenticite, Integrite, Confidentialite)">>,
   reference |-> <<"DORA 30.2(c) | EBA GL 75g, 82">>, criticality |-> "MAJOR"],
  [id |-> <<"I.5">>, section |-> "I", name |-> <<"Acces, recuperation et restitution des donnees">>,
   reference |-> <<"DORA 30.2(d) | EBA GL 75m">>, criticality |-> "MAJOR"],
  [id |-> <<"I.6">>, section |-> "I", name |-> <<"Descriptions des niveaux de service (SLA) avec RTO/RPO">>,
   reference |-> <<"DORA 30.2(e) | EBA GL 75i | FR Art.239a">>, criticality |-> "MAJOR"],
  [id |-> <<"I.7">>, section |-> "I", name |-> <<"Assistance en cas d'incident ICT (sans frais ou cout predetermine)">>,
   reference |-> <<"DORA 30.2(f)">>, criticality |-> "CRITICAL"],
  [id |-> <<"I.8">>, section |-> "I", name |-> <<"Cooperation avec les autorites competentes et de resolution">>,
   reference |-> <<"DORA 30.2(g) | EBA GL 75n | FR Art.239h">>, criticality |-> "MAJOR"],
  [id |-> <<"I.9">>, section |-> "I", name |-> <<"Droits de resiliation">>,
   reference |-> <<"DORA 30.2(h) | DORA 28.7 | EBA GL 75q, 98 | FR Art.238d">>, criticality |-> "MAJOR"],
  [id |-> <<"I.10">>, section |-> "I", name |-> <<"Participation aux programmes de formation securite ICT">>,
   reference |-> <<"DORA 30.2(i)">>, criticality |-> "CRITICAL"],
  [id |-> <<"II.1">>, section |-> "II", name |-> <<"SLA detailles avec objectifs precis et actions correctives">>,
   reference |-> <<"DORA 30.3(a) | EBA GL 75i">>, criticality |-> "MAJOR"],
  [id |-> <<"II.2">>, section |-> "II", name |-> <<"Notification des incidents et developpements materiels">>,
   reference |-> <<"DORA 30.3(b) | EBA GL 75j | FR Art.239g">>, criticality |-> "MAJOR"],
  [id |-> <<"II.3">>, section |-> "II", name |-> <<"Plan de continuite (BCP) + tests + mesures securite ICT">>,
   reference |-> <<"DORA 30.3(c) | EBA GL 75l | FR Art.239c">>, criticality |-> "MAJOR"],
  [id |-> <<"II.4">>, section |-> "II", name |-> <<"Participation aux tests de penetration TLPT">>,
   reference |-> <<"DORA 30.3(d)">>, criticality |-> "CRITICAL"],
  [id |-> <<"II.5">>, section |-> "II", name |-> <<"Droit de monitoring continu des performances">>,
   reference |-> <<"DORA 30.3(e) | EBA GL 75h | FR Art.239e">>, criticality |-> "MAJOR"],
  [id |-> <<"II.6">>, section |-> "II", name |-> <<"Droits d'acces, d'inspection et d'audit illimites">>,
   reference |-> <<"DORA 30.3(e)(i) | EBA GL 75p, 87 | FR Art.239f">>, criticality |-> "MAJOR"],
  [id |-> <<"II.7">>, section |-> "II", name |-> <<"Niveaux d'assurance alternatifs (pooled audit)">>,
   reference |-> <<"DORA 30.3(e)(ii) | EBA GL 91">>, criticality |-> "MINOR"],
  [id |-> <<"II.8">>, section |-> "II", name |-> <<"Cooperation lors des inspections et audits">>,
   reference |-> <<"DORA 30.3(e)(iii) | EBA GL 95">>, criticality |-> "MAJOR"],
  [id |-> <<"II.9">>, section |-> "II", name |-> <<"Details sur le scope et la frequence des audits">>,
   reference |-> <<"DORA 30.3(e)(iv) | EBA GL 90">>, criticality |-> "MINOR"],
  [id |-> <<"II.10">>, section |-> "II", name |-> <<"Strategie de sortie avec periode de transition OBLIGATOIRE">>,
   reference |-> <<"DORA 30.3(f) | EBA GL 99, 106-108">>, criticality |-> "CRITICAL"],
  [id |-> <<"III.1">>, section |-> "III", name |-> <<"Contrat ecrit (principe general EBA GL 74)">>,
   reference |-> <<"EBA GL 74">>, criticality |-> "MAJOR"],
  [id |-> <<"III.2">>, section |-> "III", name |-> <<"Assurance obligatoire contre certains risques">>,
   reference |-> <<"EBA GL 75k">>, criticality |-> "MINOR"],
  [id |-> <<"III.3">>, section |-> "III", name |-> <<"Reference autorite de resolution nationale">>,
   reference |-> <<"EBA GL 75o">>, criticality |-> "MINOR"],
  [id |-> <<"IV.1">>, section |-> "IV", name |-> <<"Definition des activites externalisees">>,
   reference |-> <<"Arrete 2014 Art. 10 q)">>, criticality |-> "MINOR"],
  [id |-> <<"IV.2">>, section |-> "IV", name |-> <<"Definition des prestations essentielles ou importantes (PSEE)">>,
   reference |-> <<"Arrete 2014 Art. 10 r)">>, criticality |-> "MINOR"],
  [id |-> <<"IV.3">>, section |-> "IV", name |-> <<"Agrement ou habilitation du prestataire">>,
   reference |-> <<"Arrete 2014 Art. 231">>, criticality |-> "MINOR"],
  [id |-> <<"IV.4">>, section |-> "IV", name |-> <<"Maintien de la responsabilite de l'entite">>,
   reference |-> <<"Arrete 2014 Art. 237">>, criticality |-> "MAJOR"],
  [id |-> <<"IV.5">>, section |-> "IV", name |-> <<"Protection des informations confidentielles">>,
   reference |-> <<"Arrete 2014 Art. 239 b)">>, criticality |-> "MAJOR"],
  [id |-> <<"IV.6">>, section |-> "IV", name |-> <<"Mecanismes de secours (BCP)">>,
   reference |-> <<"Arrete 2014 Art. 239 c)">>, criticality |-> "MAJOR"],
  [id |-> <<"IV.7">>, section |-> "IV", name |-> <<"Interdiction modification substantielle sans accord">>,
   reference |-> <<"Arrete 2014 Art. 239 d)">>, criticality |-> "MAJOR"],
  [id |-> <<"IV.8">>, section |-> "IV", name |-> <<"Conformite aux procedures de controle">>,
   reference |-> <<"Arrete 2014 Art. 239 e)">>, criticality |-> "MAJOR"],
  [id |-> <<"IV.9">>, section |-> "IV", name |-> <<"Acces aux informations (y compris sur place)">>,
   reference |-> <<"Arrete 2014 Art. 239 f)">>, criticality |-> "MAJOR"],
  [id |-> <<"IV.10">>, section |-> "IV", name |-> <<"Information sur evenements impactant la capacite">>,
   reference |-> <<"Arrete 2014 Art. 239 g)">>, criticality |-> "MAJOR"],
  [id |-> <<"IV.11">>, section |-> "IV", name |-> <<"Acces ACPR (autorite competente)">>,
   reference |-> <<"Arrete 2014 Art. 239 h)">>, criticality |-> "MAJOR"],
  [id |-> <<"IV.12">>, section |-> "IV", name |-> <<"Engagement sur niveau de qualite (SLA)">>,
   reference |-> <<"Arrete 2014 Art. 239 a)">>, criticality |-> "MAJOR"]
>>

\* a lookup falling back to the first entry of the catalog instead of
\* answering undefined
getRequirementByIdFirst(id) ==
  LET hits == SelectSeq(CHECKLIST, LAMBDA req : IsStr(id, req.id))
  IN  IF hits = <<>> THEN <<CHECKLIST[1]>> ELSE <<hits[1]>>

\* CHECKLIST.find(req => req.id === id): the first entry with that id, as a
\* sequence of length 1, or the empty sequence for undefined.  The id is a
\* JavaScript value: only a string can be === to a catalog id.
getRequirementById(id) ==
  LET hits == SelectSeq(CHECKLIST, LAMBDA req : IsStr(id, req.id))
  IN  IF hits = <<>> THEN <<>> ELSE <<hits[1]>>

getCriticalRequirementIds == << <<"I.7">>, <<"I.10">>, <<"II.4">>, <<"II.10">> >>

\* ------------------------------------------------------------------------
\* Scoring constants (types/index.ts)
\* ------------------------------------------------------------------------
WeightCritical == 3
WeightMajor == 2
WeightMinor == 1
ValueCompliant == 100
ValueImplicit == 70
ValuePartial == 30
ValueAbsent == 0

CRITICALITY_WEIGHTS ==
  [c \in {"CRITICAL", "MAJOR", "MINOR"} |->
     CASE c = "CRITICAL" -> WeightCritical
       [] c = "MAJOR" -> WeightMajor
       [] OTHER -> WeightMinor]

COMPLIANT == <<"COMPLIANT">>
IMPLICIT == <<"IMPLICIT">>
PARTIAL == <<"PARTIAL">>
ABSENT == <<"ABSENT">>
NA == <<"NA">>
RequirementStatus == {COMPLIANT, IMPLICIT, PARTIAL, ABSENT, NA}

\* STATUS_VALUES[status], undefined (here -1) for any other key. A property
\* key is converted to a string: the array ["IMPLICIT"] reads the entry of
\* "IMPLICIT".
STATUS_VALUES(status) ==
  LET key == ToStr(status)
  IN  CASE key = COMPLIANT -> ValueCompliant
        [] key = IMPLICIT -> ValueImplicit
        [] key = PARTIAL -> ValuePartial
        [] key = ABSENT -> ValueAbsent
        [] key = NA -> 0
        [] OTHER -> -1

CRITICAL_REQUIREMENT_IDS == << <<"I.7">>, <<"I.10">>, <<"II.4">>, <<"II.10">> >>

\* Array.prototype.includes on an array of strings
Includes(arr, v) == \E i \in 1..Len(arr) : IsStr(v, arr[i])

\* ------------------------------------------------------------------------
\* IEEE-754 binary64 arithmetic, as far as the score computation uses it:
\* a quotient of two small non-negative integers, a product by a small
\* integer, and Math.round.  A positive double is [m, f]: the Precision
\* binary digits m (most significant first, m[1] = 1) of its significand and
\* the number f of those digits that follow the binary point, so that its
\* value is m * 2^(-f); zero is [m |-> <<>>, f |-> 0].
\* ------------------------------------------------------------------------
Precision == 53

Dbl(m, f) == [m |-> m, f |-> f]
DblZero == Dbl(<<>>, 0)

RECURSIVE ToBits(_)
ToBits(n) == IF n = 0 THEN <<>> ELSE Append(ToBits(n \div 2), n % 2)

RECURSIVE BitsToNat(_)
BitsToNat(bits) ==
  IF bits = <<>> THEN 0
  ELSE 2 * BitsToNat(SubSeq(bits, 1, Len(bits) - 1)) + bits[Len(bits)]

RECURSIVE BitsInc(_)
BitsInc(bits) ==
  IF bits = <<>> THEN <<1>>
  ELSE IF bits[Len(bits)] = 0 THEN [bits EXCEPT ![Len(bits)] = 1]
  ELSE Append(BitsInc(SubSeq(bits, 1, Len(bits) - 1)), 0)

\* The double nearest to an exact value whose leading Precision digits are
\* `keep` (f of them after the point): roundUp says that the discarded rest
\* is above one half of the last kept digit, or equal to it with that digit
\* odd (round to nearest, ties to even).
RoundKeep(keep, f, roundUp) ==
  IF ~roundUp THEN Dbl(keep, f)
  ELSE LET inc == BitsInc(keep)
       IN  IF Len(inc) > Precision
           THEN Dbl(SubSeq(inc, 1, Precision), f - 1)
           ELSE Dbl(inc, f)

\* Long division a / b: acc are the quotient digits so far (no leading
\* zero), f of them after the point, r the remainder.
RECURSIVE DivDigits(_, _, _, _)
DivDigits(r, b, acc, f) ==
  IF Len(acc) = Precision
  THEN RoundKeep(acc, f, 2 * r > b \/ (2 * r = b /\ acc[Precision] = 1))
  ELSE LET bit == IF 2 * r >= b THEN 1 ELSE 0
           acc2 == IF acc = <<>> /\ bit = 0 THEN acc ELSE Append(acc, bit)
       IN  DivDigits(2 * r - bit * b, b, acc2, f + 1)

\* a / b in binary64, for integers a >= 0, b > 0
FDiv(a, b) ==
  IF a = 0 THEN DblZero ELSE DivDigits(a % b, b, ToBits(a \div b), 0)

\* The binary digits of m * k, digit i of m being the least significant
\* one still to multiply.
RECURSIVE MulDigits(_, _, _, _)
MulDigits(m, i, k, carry) ==
  IF i = 0 THEN ToBits(carry)
  ELSE LET t == m[i] * k + carry
       IN  IF t % 2 = 0
           THEN Append(MulDigits(m, i - 1, k, t \div 2), 0)
           ELSE Append(MulDigits(m, i - 1, k, t \div 2), 1)

\* x * k in binary64, for an integer k > 0 (exactly representable)
FMulInt(x, k) ==
  IF x.m = <<>> THEN DblZero
  ELSE LET p == MulDigits(x.m, Len(x.m), k, 0)
           d == Len(p) - Precision
           keep == SubSeq(p, 1, Precision)
           rest == SubSeq(p, Precision + 1, Len(p))
           half == d > 0 /\ rest[1] = 1 /\ \A j \in 2..d : rest[j] = 0
           above == d > 0 /\ rest[1] = 1 /\ \E j \in 2..d : rest[j] = 1
       IN  RoundKeep(keep, x.f - d, above \/ (half /\ keep[Precision] = 1))

\* Math.round(x) = floor(x + 0.5), for 0 <= x < 2^31
MathRound(x) ==
  IF x.m = <<>> THEN 0
  ELSE LET il == Len(x.m) - x.f
       IN  IF il < 0 THEN 0
           ELSE IF il >= Len(x.m) THEN BitsToNat(x.m) * (2 ^ (il - Len(x.m)))
           ELSE BitsToNat(SubSeq(x.m, 1, il)) + x.m[il + 1]

\* ------------------------------------------------------------------------
\* Scoring (v3.1 with criticality weighting)
\* ------------------------------------------------------------------------
K_requirementId == <<"requirementId">>
K_status == <<"status">>
K_comment == <<"comment">>
K_foundClause == <<"foundClause">>

\* `criticality` is requirement?.criticality: <<>> when there is no
\* requirement
getCriticalityWeight(criticality) ==
  IF criticality = <<>> THEN 1
  ELSE IF CRITICALITY_WEIGHTS[criticality[1]] # 0
       THEN CRITICALITY_WEIGHTS[criticality[1]] ELSE 1

\* getStatusValue with the values of PARTIAL and IMPLICIT exchanged
getStatusValueSwapped(status) ==
  IF STATUS_VALUES(status) = ValuePartial THEN ValueImplicit
  ELSE IF STATUS_VALUES(status) = ValueImplicit THEN ValuePartial
  ELSE IF STATUS_VALUES(status) > 0 THEN STATUS_VALUES(status) ELSE 0

getStatusValue(status) ==
  IF STATUS_VALUES(status) > 0 THEN STATUS_VALUES(status) ELSE 0

ItemWeight(item) ==
  LET requirement == getRequirementById(Prop(item, K_requirementId))
  IN  getCriticalityWeight(IF requirement = <<>> THEN <<>>
                           ELSE <<requirement[1].criticality>>)

\* the loop of calculateScoreFromItems over applicableItems[1..n]
RECURSIVE weightedScore(_, _)
weightedScore(applicableItems, n) ==
  IF n = 0 THEN 0
  ELSE weightedScore(applicableItems, n - 1)
       + getStatusValue(Prop(applicableItems[n], K_status)) * ItemWeight(applicableItems[n])

RECURSIVE maxPossibleScore(_, _)
maxPossibleScore(applicableItems, n) ==
  IF n = 0 THEN 0
  ELSE maxPossibleScore(applicableItems, n - 1) + 100 * ItemWeight(applicableItems[n])

\* a filter that keeps the NA items
IsApplicableAll(item) == TRUE

IsApplicable(item) == ~IsStr(Prop(item, K_status), NA)

calculateScoreFromItems(items) ==
  LET applicableItems == SelectSeq(items, IsApplicable)
      ws == weightedScore(applicableItems, Len(applicableItems))
      mx == maxPossibleScore(applicableItems, Len(applicableItems))
  IN  IF Len(applicableItems) = 0 THEN 0
      ELSE IF mx > 0 THEN MathRound(FMulInt(FDiv(ws, mx), 100)) ELSE 0

\* item.status of a null or undefined item throws a TypeError
calculateScoreThrows(items) == \E i \in 1..Len(items) : PropThrows(items[i])

\* ------------------------------------------------------------------------
\* ContractAnalysis: fileName and date are strings, score a number, items
\* the list of item values; generalClauses, executiveSummary and
\* recommendedClauses are whatever values the response held.
\* ------------------------------------------------------------------------
MkAnalysis(fileName, date, score, items, generalClauses, executiveSummary, recommendedClauses) ==
  [fileName |-> fileName, date |-> date, score |-> score, items |-> items,
   generalClauses |-> generalClauses, executiveSummary |-> executiveSummary,
   recommendedClauses |-> recommendedClauses]

\* ------------------------------------------------------------------------
\* Critical requirements validation
\* ------------------------------------------------------------------------
WarnPrefix == <<"(!) EXIGENCE CRITIQUE : ">>
WarnNoteOpen == <<NEWLINE, NEWLINE, "Note: Cette exigence (">>
WarnNoteClose == <<") ne peut pas etre consideree comme implicitement couverte par une clause de conformite generale. Une clause explicite est fortement recommandee.">>

\* the test of the clamp with a list that lacks II.4
IsCriticalImplicitStale(item) ==
  /\ Includes(<< <<"I.7">>, <<"I.10">>, <<"II.10">> >>, Prop(item, K_requirementId))
  /\ IsStr(Prop(item, K_status), IMPLICIT)

\* the test of the clamp taking PARTIAL for IMPLICIT as well
IsCriticalImplicitOrPartial(item) ==
  /\ Includes(CRITICAL_REQUIREMENT_IDS, Prop(item, K_requirementId))
  /\ (IsStr(Prop(item, K_status), IMPLICIT) \/ IsStr(Prop(item, K_status), PARTIAL))

IsCriticalImplicit(item) ==
  /\ Includes(CRITICAL_REQUIREMENT_IDS, Prop(item, K_requirementId))
  /\ IsStr(Prop(item, K_status), IMPLICIT)

\* the callback building the corrected item from three fields, without
\* the spread of the item
CorrectItemRebuilt(item) ==
  IF Includes(CRITICAL_REQUIREMENT_IDS, Prop(item, K_requirementId))
     /\ IsStr(Prop(item, K_status), IMPLICIT)
  THEN JObj(<<K_requirementId, K_status, K_comment>>,
            <<Prop(item, K_requirementId), JStr(PARTIAL),
              JStr(WarnPrefix \o ToStr(Prop(item, K_comment)))>>)
  ELSE item

\* the callback of response.items.map
CorrectItem(item) ==
  IF IsCriticalImplicit(item)
  THEN LET req == getRequirementById(Prop(item, K_requirementId))
           reqName == IF req # <<>> /\ req[1].name # <<>>
                      THEN req[1].name
                      ELSE ToStr(Prop(item, K_requirementId))
       IN  SetProp(SetProp(item, K_status, JStr(PARTIAL)), K_comment,
                   JStr(WarnPrefix \o ToStr(Prop(item, K_comment))
                        \o WarnNoteOpen \o reqName \o WarnNoteClose))
  ELSE item

validateCriticalRequirements(response) ==
  [response EXCEPT !.items = [i \in 1..Len(response.items) |-> CorrectItem(response.items[i])]]

\* item.requirementId of a null or undefined item throws a TypeError
validateCriticalRequirementsThrows(response) ==
  \E i \in 1..Len(response.items) : PropThrows(response.items[i])

\* ------------------------------------------------------------------------
\* Auto-recommendation generator.  The wording of a recommendation is kept
\* to its fixed parts, the requirement's name and its reference; the
\* clause suggestion and the mined missing elements are one lexeme each.
\* ------------------------------------------------------------------------
\* comment.toLowerCase() in extractMissingElements throws a TypeError when
\* the comment is no string (reached for PARTIAL)
generateAutoRecommendationThrows(status, comment) ==
  IsStr(status, PARTIAL) /\ comment.t # "str"

\* a generator that writes a recommendation for ABSENT only
generateAutoRecommendationAbsentOnly(status, requirement, analysisComment) ==
  IF IsStr(status, ABSENT)
  THEN JStr(<<"Ajouter une clause contractuelle couvrant ", QUOTE>>
            \o requirement.name \o <<QUOTE, " (">> \o requirement.reference
            \o <<"). ", "clauseSuggestion">>)
  ELSE Undef

generateAutoRecommendation(status, requirement, analysisComment) ==
  IF IsStr(status, COMPLIANT) \/ IsStr(status, IMPLICIT) \/ IsStr(status, NA)
  THEN Undef
  ELSE IF IsStr(status, ABSENT)
  THEN LET criticalityPrefix ==
             IF requirement.criticality = "CRITICAL" THEN <<"(!) PRIORITE HAUTE: ">>
             ELSE IF requirement.criticality = "MAJOR" THEN <<"PRIORITE MOYENNE: ">>
             ELSE <<>>
       IN  JStr(criticalityPrefix \o <<"Ajouter une clause contractuelle couvrant ", QUOTE>>
                \o requirement.name \o <<QUOTE, " (">> \o requirement.reference
                \o <<"). ", "clauseSuggestion">>)
  ELSE IF IsStr(status, PARTIAL)
  THEN JStr(<<"Renforcer ou completer la clause existante: ", "missingElements", " Ref: ">>
            \o requirement.reference)
  ELSE Undef

\* ------------------------------------------------------------------------
\* Response transformer
\* ------------------------------------------------------------------------
K_title == <<"title">>
K_reference == <<"reference">>
K_textFr == <<"textFr">>

\* String.prototype.toLowerCase, lexeme by lexeme: the lexemes that hold an
\* upper-case letter and their lower-case forms
LowerTable == <<
  <<"Contrat ecrit unique",
    "contrat ecrit unique">>,
  <<"Description des services TIC et gouvernance de la sous-traitance",
    "description des services tic et gouvernance de la sous-traitance">>,
  <<"Localisation des services et donnees + notification de changement",
    "localisation des services et donnees + notification de changement">>,
  <<"Protection des donnees (Disponibilite, Authenticite, Integrite, Confidentialite)",
    "protection des donnees (disponibilite, authenticite, integrite, confidentialite)">>,
  <<"Acces, recuperation et restitution des donnees",
    "acces, recuperation et restitution des donnees">>,
  <<"Descriptions des niveaux de service (SLA) avec RTO/RPO",
    "descriptions des niveaux de service (sla) avec rto/rpo">>,
  <<"Assistance en cas d'incident ICT (sans frais ou cout predetermine)",
    "assistance en cas d'incident ict (sans frais ou cout predetermine)">>,
  <<"Cooperation avec les autorites competentes et de resolution",
    "cooperation avec les autorites competentes et de resolution">>,
  <<"Droits de resiliation",
    "droits de resiliation">>,
  <<"Participation aux programmes de formation securite ICT",
    "participation aux programmes de formation securite ict">>,
  <<"SLA detailles avec objectifs precis et actions correctives",
    "sla detailles avec objectifs precis et actions correctives">>,
  <<"Notification des incidents et developpements materiels",
    "notification des incidents et developpements materiels">>,
  <<"Plan de continuite (BCP) + tests + mesures securite ICT",
    "plan de continuite (bcp) + tests + mesures securite ict">>,
  <<"Participation aux tests de penetration TLPT",
    "participation aux tests de penetration tlpt">>,
  <<"Droit de monitoring continu des performances",
    "droit de monitoring continu des performances">>,
  <<"Droits d'acces, d'inspection et d'audit illimites",
    "droits d'acces, d'inspection et d'audit illimites">>,
  <<"Niveaux d'assurance alternatifs (pooled audit)",
    "niveaux d'assurance alternatifs (pooled audit)">>,
  <<"Cooperation lors des inspections et audits",
    "cooperation lors des inspections et audits">>,
  <<"Details sur le scope et la frequence des audits",
    "details sur le scope et la frequence des audits">>,
  <<"Strategie de sortie avec periode de transition OBLIGATOIRE",
    "strategie de sortie avec periode de transition obligatoire">>,
  <<"Contrat ecrit (principe general EBA GL 74)",
    "contrat ecrit (principe general eba gl 74)">>,
  <<"Assurance obligatoire contre certains risques",
    "assurance obligatoire contre certains risques">>,
  <<"Reference autorite de resolution nationale",
    "reference autorite de resolution nationale">>,
  <<"Definition des activites externalisees",
    "definition des activites externalisees">>,
  <<"Definition des prestations essentielles ou importantes (PSEE)",
    "definition des prestations essentielles ou importantes (psee)">>,
  <<"Agrement ou habilitation du prestataire",
    "agrement ou habilitation du prestataire">>,
  <<"Maintien de la responsabilite de l'entite",
    "maintien de la responsabilite de l'entite">>,
  <<"Protection des informations confidentielles",
    "protection des informations confidentielles">>,
  <<"Mecanismes de secours (BCP)",
    "mecanismes de secours (bcp)">>,
  <<"Interdiction modification substantielle sans accord",
    "interdiction modification substantielle sans accord">>,
  <<"Conformite aux procedures de controle",
    "conformite aux procedures de controle">>,
  <<"Acces aux informations (y compris sur place)",
    "acces aux informations (y compris sur place)">>,
  <<"Information sur evenements impactant la capacite",
    "information sur evenements impactant la capacite">>,
  <<"Acces ACPR (autorite competente)",
    "acces acpr (autorite competente)">>,
  <<"Engagement sur niveau de qualite (SLA)",
    "engagement sur niveau de qualite (sla)">>,
  <<"ASSISTANCE EN CAS D'INCIDENT ICT (SANS FRAIS OU COUT PREDETERMINE)",
    "assistance en cas d'incident ict (sans frais ou cout predetermine)">>,
  <<"Clause", "clause">>
>>

LowerLex(l) ==
  IF \E i \in 1..Len(LowerTable) : LowerTable[i][1] = l
  THEN LowerTable[CHOOSE i \in 1..Len(LowerTable) : LowerTable[i][1] = l][2]
  ELSE l

toLowerCase(s) == [i \in 1..Len(s) |-> LowerLex(s[i])]

\* new RegExp("\\b" + id + "\\b").test(text): a word of the text is the id;
\* the dot of an id is a wild card of the pattern, so that a word with any
\* other character in its place matches too (WildTable lists such words).
WildTable == << <<"I-7", "I.7">>, <<"II-4", "II.4">> >>

WordMatchesId(l, id) ==
  \/ <<l>> = id
  \/ \E i \in 1..Len(WildTable) : WildTable[i][1] = l /\ <<WildTable[i][2]>> = id

idPatternTest(id, text) == \E i \in 1..Len(text) : WordMatchesId(text[i], id)

\* the inner loop over CHECKLIST: the index of the first requirement the
\* clause matches by title or by reference, 0 when it matches none
FirstMatchingReq(rec) ==
  LET matches(k) ==
        \/ toLowerCase(Prop(rec, K_title).s) = toLowerCase(CHECKLIST[k].name)
        \/ idPatternTest(CHECKLIST[k].id, ToStr(Prop(rec, K_reference)))
  IN  IF \E k \in 1..Len(CHECKLIST) : matches(k)
      THEN CHOOSE k \in 1..Len(CHECKLIST) :
             matches(k) /\ \A j \in 1..(k - 1) : ~matches(j)
      ELSE 0

\* recommendationMap.get(id) after the loop over response.recommendedClauses:
\* the textFr of the last clause whose first matching requirement has that id
recommendationMapGet(clauses, id) ==
  LET hits == {j \in 1..Len(clauses) :
                 /\ FirstMatchingReq(clauses[j]) # 0
                 /\ IsStr(id, CHECKLIST[FirstMatchingReq(clauses[j])].id)}
  IN  IF hits = {} THEN Undef
      ELSE Prop(clauses[CHOOSE j \in hits : \A h \in hits : h <= j], K_textFr)

\* the statusMap of v1.1.0, which shows an NA item as compliant
statusMapLegacy(status) ==
  LET key == ToStr(status)
  IN  CASE key = COMPLIANT -> "compliant"
        [] key = PARTIAL -> "partial"
        [] key = IMPLICIT -> "implicit"
        [] key = ABSENT -> "non-compliant"
        [] key = NA -> "compliant"
        [] OTHER -> "non-compliant"

statusMap(status) ==
  LET key == ToStr(status)
  IN  CASE key = COMPLIANT -> "compliant"
        [] key = PARTIAL -> "partial"
        [] key = IMPLICIT -> "implicit"
        [] key = ABSENT -> "non-compliant"
        [] key = NA -> "not-applicable"
        [] OTHER -> "non-compliant"

\* item.requirementId.match(/^(I{1,3}|IV)\./): the section prefix of the id
SectionTable == << <<"I.99", "I">>, <<"IV.13", "IV">> >>

SectionOfId(id) ==
  IF getRequirementById(id) # <<>>
  THEN JStr(<<getRequirementById(id)[1].section>>)
  ELSE IF id.t = "str" /\ Len(id.s) > 0
          /\ \E i \in 1..Len(SectionTable) : SectionTable[i][1] = id.s[1]
  THEN JStr(<<SectionTable[CHOOSE i \in 1..Len(SectionTable) : SectionTable[i][1] = id.s[1]][2]>>)
  ELSE Undef

\* the condition of v1.1.0 on the display status of a finding for its
\* recommendation to be shown
ShowsRecommendationLegacy(status) == status # "compliant"

\* status !== 'compliant' && status !== 'not-applicable'
ShowsRecommendation(status) == status # "compliant" /\ status # "not-applicable"

\* the callback of response.items.map: one finding
Finding(response, item) ==
  LET id == Prop(item, K_requirementId)
      req == getRequirementById(id)
      requirementName == IF req # <<>> /\ req[1].name # <<>> THEN JStr(req[1].name) ELSE id
      status == statusMap(Prop(item, K_status))
      aiRecommendation == recommendationMapGet(response.recommendedClauses.kids, id)
      recommendation ==
        IF Truthy(aiRecommendation) THEN aiRecommendation
        ELSE IF req # <<>>
             THEN generateAutoRecommendation(Prop(item, K_status), req[1], Prop(item, K_comment))
             ELSE Undef
  IN  [requirement |-> requirementName,
       status |-> status,
       details |-> Prop(item, K_comment),
       foundClause |-> IF Truthy(Prop(item, K_foundClause)) THEN Prop(item, K_foundClause) ELSE Undef,
       recommendation |->
         IF Truthy(recommendation) /\ ShowsRecommendation(status)
         THEN recommendation ELSE Undef,
       reference |-> IF req # <<>> THEN JStr(req[1].reference) ELSE Undef,
       criticality |-> IF req # <<>> THEN JStr(<<req[1].criticality>>) ELSE Undef,
       section |-> SectionOfId(id),
       requirementId |-> id]

\* the transformer of v1.1.0, which reports the asserted score
transformToFrontendFormatAsserted(response) ==
  [overallScore |-> response.score,
   summary |-> ToStr(response.executiveSummary),
   findings |-> [i \in 1..Len(response.items) |-> Finding(response, response.items[i])]]

transformToFrontendFormat(response) ==
  LET applicableItems == SelectSeq(response.items, IsApplicable)
      adjustedScore == calculateScoreFromItems(response.items)
      finalScore == IF response.score < adjustedScore THEN response.score ELSE adjustedScore
      naCount == Len(response.items) - Len(applicableItems)
  IN  [overallScore |-> finalScore,
       summary |-> ToStr(response.executiveSummary)
                   \o <<NEWLINE, NEWLINE, "Criteres analyses: ",
                        ToString(Len(applicableItems)), "/", ToString(Len(response.items))>>
                   \o (IF naCount > 0 THEN <<" (", ToString(naCount), " N/A exclus)">> ELSE <<>>),
       findings |-> [i \in 1..Len(response.items) |-> Finding(response, response.items[i])]]

\* The TypeErrors of transformToFrontendFormat: recommendedClauses that
\* cannot be iterated, a clause or an item that is null, a clause title or
\* a requirementId that is no string (toLowerCase, match), and the throw
\* of generateAutoRecommendation.
transformToFrontendFormatThrows(response) ==
  \/ response.recommendedClauses.t # "arr"
  \/ \E j \in 1..Len(response.recommendedClauses.kids) :
       \/ PropThrows(response.recommendedClauses.kids[j])
       \/ Prop(response.recommendedClauses.kids[j], K_title).t # "str"
  \/ \E i \in 1..Len(response.items) :
       \/ PropThrows(response.items[i])
       \/ Prop(response.items[i], K_requirementId).t # "str"
       \/ /\ getRequirementById(Prop(response.items[i], K_requirementId)) # <<>>
          /\ ~Truthy(recommendationMapGet(response.recommendedClauses.kids,
                                          Prop(response.items[i], K_requirementId)))
          /\ generateAutoRecommendationThrows(Prop(response.items[i], K_status),
                                              Prop(response.items[i], K_comment))

\* ------------------------------------------------------------------------
\* JSON.parse on a lexeme sequence
\* ------------------------------------------------------------------------
SetMin(S) == CHOOSE x \in S : \A y \in S : x <= y
SetMax(S) == CHOOSE x \in S : \A y \in S : y <= x

\* \s of a regular expression, and the white space JSON allows between
\* tokens: WS is a space, NEWLINE a line feed
IsSpace(l) == l \in {WS, NEWLINE}

\* the least index >= i that holds no white space, Len(s) + 1 when none
RECURSIVE SkipSpace(_, _)
SkipSpace(s, i) ==
  IF i <= Len(s) /\ IsSpace(s[i]) THEN SkipSpace(s, i + 1) ELSE i

\* The number lexemes of the model and twice their values
NumTable == << <<"0", 0>>, <<"40", 80>>, <<"60", 120>>, <<"85", 170>>, <<"90", 180>>,
               <<"150", 300>>, <<"-5", -10>>, <<"49.5", 99>> >>
IsNumLex(l) == \E i \in 1..Len(NumTable) : NumTable[i][1] = l
NumLexValue2(l) == NumTable[CHOOSE i \in 1..Len(NumTable) : NumTable[i][1] = l][2]

\* the number of backslashes that immediately precede index j
BackslashRunBefore(s, j) ==
  LET others == {k \in 1..(j - 1) : s[k] # BSLASH}
  IN  IF others = {} THEN j - 1 ELSE j - 1 - SetMax(others)

\* index j holds a backslash that starts an escape sequence
StartsEscape(s, j) == s[j] = BSLASH /\ BackslashRunBefore(s, j) % 2 = 0
\* index j holds the character an escape sequence escapes
IsEscaped(s, j) == j > 1 /\ StartsEscape(s, j - 1)

\* the body of a JSON string literal is well formed: no raw control
\* character, and every escape is one JSON knows
JsonBodyOk(body) ==
  \A j \in 1..Len(body) :
    /\ body[j] # NEWLINE
    /\ StartsEscape(body, j) =>
         j < Len(body) /\ body[j + 1] \in {QUOTE, BSLASH, "n", "/", "t", "r", "b", "f"}

JsonDecodeLex(body, j) ==
  IF IsEscaped(body, j)
  THEN CASE body[j] = "n" -> NEWLINE
         [] body[j] = "t" -> "TAB"
         [] body[j] = "r" -> "CR"
         [] body[j] = "b" -> "BS"
         [] body[j] = "f" -> "FF"
         [] OTHER -> body[j]
  ELSE body[j]

\* the string a well-formed body denotes
JsonDecode(body) ==
  LET kept == {j \in 1..Len(body) : ~StartsEscape(body, j)}
      nth(k) == CHOOSE j \in kept : Cardinality({h \in kept : h <= j}) = k
  IN  [k \in 1..Cardinality(kept) |-> JsonDecodeLex(body, nth(k))]

ParseFail == [ok |-> FALSE, v |-> Undef, next |-> 0]
ParseOk(v, next) == [ok |-> TRUE, v |-> v, next |-> next]

\* the index of the quote that closes a string literal, read from index j
\* on: a backslash takes the lexeme after it with it; 0 when none closes it
RECURSIVE ClosingQuote(_, _)
ClosingQuote(s, j) ==
  IF j > Len(s) THEN 0
  ELSE IF s[j] = QUOTE THEN j
  ELSE IF s[j] = BSLASH THEN ClosingQuote(s, j + 2)
  ELSE ClosingQuote(s, j + 1)

\* a string literal whose opening quote is at index i
ParseString(s, i) ==
  LET close == ClosingQuote(s, i + 1)
  IN  IF close = 0 THEN ParseFail
      ELSE LET body == SubSeq(s, i + 1, close - 1)
           IN  IF JsonBodyOk(body)
               THEN ParseOk(JStr(JsonDecode(body)), close + 1)
               ELSE ParseFail

RECURSIVE ParseValue(_, _)
RECURSIVE ParseMembers(_, _, _)
RECURSIVE ParseElements(_, _, _)

\* the members of an object from index i (white space skipped) on, obj
\* holding the members read so far; a repeated key keeps its last value
ParseMembers(s, i, obj) ==
  IF i > Len(s) \/ s[i] # QUOTE THEN ParseFail
  ELSE LET k == ParseString(s, i)
       IN  IF ~k.ok THEN ParseFail
           ELSE LET c == SkipSpace(s, k.next)
                IN  IF c > Len(s) \/ s[c] # COLON THEN ParseFail
                    ELSE LET val == ParseValue(s, c + 1)
                         IN  IF ~val.ok THEN ParseFail
                             ELSE LET d == SkipSpace(s, val.next)
                                      obj2 == SetProp(obj, k.v.s, val.v)
                                  IN  IF d > Len(s) THEN ParseFail
                                      ELSE IF s[d] = RBRACE THEN ParseOk(obj2, d + 1)
                                      ELSE IF s[d] = COMMA
                                      THEN ParseMembers(s, SkipSpace(s, d + 1), obj2)
                                      ELSE ParseFail

\* the elements of an array from index i on, kids the elements read so far
ParseElements(s, i, kids) ==
  LET val == ParseValue(s, i)
  IN  IF ~val.ok THEN ParseFail
      ELSE LET d == SkipSpace(s, val.next)
               kids2 == Append(kids, val.v)
           IN  IF d > Len(s) THEN ParseFail
               ELSE IF s[d] = RBRACK THEN ParseOk(JArr(kids2), d + 1)
               ELSE IF s[d] = COMMA THEN ParseElements(s, d + 1, kids2)
               ELSE ParseFail

ParseValue(s, i0) ==
  LET i == SkipSpace(s, i0)
  IN  IF i > Len(s) THEN ParseFail
      ELSE IF s[i] = QUOTE THEN ParseString(s, i)
      ELSE IF s[i] = LBRACE
      THEN LET j == SkipSpace(s, i + 1)
           IN  IF j <= Len(s) /\ s[j] = RBRACE THEN ParseOk(EmptyObj, j + 1)
               ELSE ParseMembers(s, j, EmptyObj)
      ELSE IF s[i] = LBRACK
      THEN LET j == SkipSpace(s, i + 1)
           IN  IF j <= Len(s) /\ s[j] = RBRACK THEN ParseOk(JArr(<<>>), j + 1)
               ELSE ParseElements(s, j, <<>>)
      ELSE IF IsNumLex(s[i]) THEN ParseOk(JNum2(NumLexValue2(s[i])), i + 1)
      ELSE IF s[i] = "null" THEN ParseOk(JNull, i + 1)
      ELSE IF s[i] = "true" THEN ParseOk(JBool(TRUE), i + 1)
      ELSE IF s[i] = "false" THEN ParseOk(JBool(FALSE), i + 1)
      ELSE ParseFail

\* JSON.parse(text): [ok, v]; ok = FALSE for a SyntaxError
JSONparse(text) ==
  LET r == ParseValue(text, 1)
  IN  IF r.ok /\ SkipSpace(text, r.next) > Len(text)
      THEN [ok |-> TRUE, v |-> r.v]
      ELSE [ok |-> FALSE, v |-> Undef]

\* ------------------------------------------------------------------------
\* Response parser with truncation recovery
\* ------------------------------------------------------------------------
\* the last index of from..(to) that holds no white space, from - 1 when none
LastNonSpace(s, from, to) ==
  LET rest == {j \in from..to : ~IsSpace(s[j])}
  IN  IF rest = {} THEN from - 1 ELSE SetMax(rest)

Drop(s, n) == SubSeq(s, n + 1, Len(s))

extractJsonString(responseText) ==
  LET fences == {i \in 1..Len(responseText) : responseText[i] = FENCE}
      \* /<fence>(?:json)?\s*([\s\S]*?)\s*<fence>/: the text between the
      \* first two fences, without the language tag and the white space
      \* around it
      codeBlock ==
        LET f1 == SetMin(fences)
            f2 == SetMin(fences \ {f1})
            a0 == IF responseText[f1 + 1] = "json" THEN f1 + 2 ELSE f1 + 1
            a  == SkipSpace(responseText, a0)
        IN  SubSeq(responseText, a, LastNonSpace(responseText, a, f2 - 1))
      r1 == IF Len(responseText) >= 2 /\ responseText[1] = FENCE /\ responseText[2] = "json"
            THEN Drop(responseText, SkipSpace(responseText, 3) - 1)
            ELSE responseText
      r2 == IF Len(r1) >= 1 /\ r1[1] = FENCE
            THEN Drop(r1, SkipSpace(r1, 2) - 1)
            ELSE r1
      r3 == IF Len(r2) >= 1 /\ r2[Len(r2)] = FENCE
            THEN SubSeq(r2, 1, LastNonSpace(r2, 1, Len(r2) - 1))
            ELSE r2
      jsonStr == IF Cardinality(fences) >= 2 THEN codeBlock ELSE r3
      opens  == {i \in 1..Len(jsonStr) : jsonStr[i] = LBRACE}
      closes == {i \in 1..Len(jsonStr) : jsonStr[i] = RBRACE}
  IN  IF opens # {} /\ \E c \in closes : c > SetMin(opens)
      THEN SubSeq(jsonStr, SetMin(opens), SetMax(closes))
      ELSE jsonStr

\* A pattern is a sequence of lexemes, WS standing for \s*; every lexeme
\* that follows a \s* is no white space, so the match is deterministic.
\* The index after the match of pat[k..] at s[i..], 0 when there is none.
RECURSIVE MatchSeq(_, _, _, _)
MatchSeq(s, i, pat, k) ==
  IF k > Len(pat) THEN i
  ELSE IF pat[k] = WS THEN MatchSeq(s, SkipSpace(s, i), pat, k + 1)
  ELSE IF i <= Len(s) /\ s[i] = pat[k] THEN MatchSeq(s, i + 1, pat, k + 1)
  ELSE 0

\* "key"\s*:\s*" of a pattern
KeyPattern(key) == <<QUOTE, key, QUOTE, WS, COLON, WS, QUOTE>>

\* the index of the first quote at or after i, 0 when there is none
RECURSIVE NextQuote(_, _)
NextQuote(s, i) ==
  IF i > Len(s) THEN 0
  ELSE IF s[i] = QUOTE THEN i
  ELSE NextQuote(s, i + 1)

NoMatch == [ok |-> FALSE, end |-> 0, requirementId |-> <<>>, status |-> <<>>, comment |-> <<>>]

\* itemPattern anchored at index p. The group ([^"]*(?:\\.[^"]*)*) is
\* followed by a quote and nothing else, so it ends at the first quote.
ItemMatchAt(s, p) ==
  LET i1 == MatchSeq(s, p, <<LBRACE, WS>> \o KeyPattern("requirementId"), 1)
  IN  IF i1 = 0 THEN NoMatch
      ELSE LET q1 == NextQuote(s, i1)
           IN  IF q1 <= i1 THEN NoMatch
               ELSE LET i2 == MatchSeq(s, q1, <<QUOTE, WS, COMMA, WS>> \o KeyPattern("status"), 1)
                    IN  IF i2 = 0 \/ i2 > Len(s) \/ <<s[i2]>> \notin RequirementStatus THEN NoMatch
                        ELSE LET i3 == MatchSeq(s, i2 + 1, <<QUOTE, WS, COMMA, WS>> \o KeyPattern("comment"), 1)
                             IN  IF i3 = 0 THEN NoMatch
                                 ELSE LET q3 == NextQuote(s, i3)
                                      IN  IF q3 = 0 THEN NoMatch
                                          ELSE [ok |-> TRUE, end |-> q3 + 1,
                                                requirementId |-> SubSeq(s, i1, q1 - 1),
                                                status |-> <<s[i2]>>,
                                                comment |-> SubSeq(s, i3, q3 - 1)]

\* String.prototype.replace(/ab/g, r) for two different lexemes a and b
ReplacePair(s, a, b, r) ==
  LET starts == {j \in 1..(Len(s) - 1) : s[j] = a /\ s[j + 1] = b}
      kept == {j \in 1..Len(s) : j - 1 \notin starts}
      nth(k) == CHOOSE j \in kept : Cardinality({h \in kept : h <= j}) = k
  IN  [k \in 1..Cardinality(kept) |-> IF nth(k) \in starts THEN r ELSE s[nth(k)]]

\* .replace(/\\"/g, '"').replace(/\\n/g, '\n')
Unescape(s) == ReplacePair(ReplacePair(s, BSLASH, QUOTE, QUOTE), BSLASH, "n", NEWLINE)

\* the item pushed for one match of itemPattern
RecoveredItem(s, m) ==
  LET f == MatchSeq(s, m.end, <<WS, COMMA, WS>> \o KeyPattern("foundClause"), 1)
      q == IF f = 0 THEN 0 ELSE NextQuote(s, f)
      foundClause == IF q = 0 THEN <<>> ELSE Unescape(SubSeq(s, f, q - 1))
      base == JObj(<<K_requirementId, K_status, K_comment>>,
                   <<JStr(m.requirementId), JStr(m.status), JStr(Unescape(m.comment))>>)
  IN  IF foundClause # <<>> THEN SetProp(base, K_foundClause, JStr(foundClause)) ELSE base

\* the loop of itemPattern.exec from lastIndex on
RECURSIVE RecoverFrom(_, _, _)
RecoverFrom(s, lastIndex, recoveredItems) ==
  LET starts == {p \in lastIndex..Len(s) : ItemMatchAt(s, p).ok}
  IN  IF starts = {} THEN recoveredItems
      ELSE LET m == ItemMatchAt(s, SetMin(starts))
           IN  RecoverFrom(s, m.end, Append(recoveredItems, RecoveredItem(s, m)))

recoverItemsFromTruncatedJson(jsonStr) == RecoverFrom(jsonStr, 1, <<>>)

\* the nesting depth of square brackets after reading s[(o + 1)..k]
BracketDepth(s, o, k) ==
  Cardinality({j \in (o + 1)..k : s[j] = LBRACK}) - Cardinality({j \in (o + 1)..k : s[j] = RBRACK})

\* The index of the bracket that closes the array opened at index o, as
\* ((?:[^[\]]|\[(?:[^[\]]|\[[^[\]]*\])*\])*)\] finds it: 0 when the array
\* is not closed or nests more than two levels of brackets.
ClosingBracket(s, o) ==
  LET ends == {j \in (o + 1)..Len(s) : BracketDepth(s, o, j) = -1}
  IN  IF ends = {} THEN 0
      ELSE IF \A k \in (o + 1)..SetMin(ends) : BracketDepth(s, o, k) <= 2
      THEN SetMin(ends)
      ELSE 0

\* generalClausesMatch and the JSON.parse of its group
RecoverGeneralClauses(jsonStr) ==
  LET pat == <<QUOTE, "generalClauses", QUOTE, WS, COLON, WS, LBRACK>>
      opensAfter(p) == MatchSeq(jsonStr, p, pat, 1)
      starts == {p \in 1..Len(jsonStr) :
                   opensAfter(p) # 0 /\ ClosingBracket(jsonStr, opensAfter(p) - 1) # 0}
  IN  IF starts = {} THEN JArr(<<>>)
      ELSE LET o == opensAfter(SetMin(starts)) - 1
               parsed == JSONparse(SubSeq(jsonStr, o, ClosingBracket(jsonStr, o)))
           IN  IF parsed.ok THEN parsed.v ELSE JArr(<<>>)

DefaultSummary == <<"Analyse terminee.">>
TruncatedSummary == <<"Analyse partiellement recuperee suite a une troncature.">>

\* summaryMatch and the replaces of its group
RecoverExecutiveSummary(jsonStr) ==
  LET after(p) == MatchSeq(jsonStr, p, KeyPattern("executiveSummary"), 1)
      starts == {p \in 1..Len(jsonStr) : after(p) # 0 /\ NextQuote(jsonStr, after(p)) # 0}
  IN  IF starts = {} THEN TruncatedSummary
      ELSE LET a == after(SetMin(starts))
           IN  Unescape(SubSeq(jsonStr, a, NextQuote(jsonStr, a) - 1))

\* a warning that does not state the number of items
PartialPrefixPlain(n) == <<"(!) Resultats partiels. ">>

PartialPrefix(n) == <<"(!) Resultats partiels (", ToString(n), " items recuperes). ">>

\* new Date().toLocaleDateString('fr-FR'): one lexeme, the clock is not modelled
Today == <<"date">>

NoAnalysis == MkAnalysis(<<>>, <<>>, 0, <<>>, Undef, Undef, Undef)

\* the value of the try block of parseAIResponse is usable: JSON.parse
\* returned, reading result.score did not throw, and the shape test passed
StrictOk(jsonStr) ==
  LET parsed == JSONparse(jsonStr)
  IN  /\ parsed.ok
      /\ Prop(parsed.v, <<"score">>).t = "num"
      /\ Prop(parsed.v, <<"items">>).t = "arr"

\* Math.max(0, Math.min(100, Math.round(score))) of a number given as twice
\* its value; Math.round rounds a half up
ClampScore(n2) ==
  LET rounded == (n2 + 1) \div 2
  IN  IF rounded < 0 THEN 0 ELSE IF rounded > 100 THEN 100 ELSE rounded

\* parseAIResponse: outcome "error" stands for the thrown Error
parseAIResponse(responseText, fileName) ==
  LET jsonStr == extractJsonString(responseText)
  IN  IF StrictOk(jsonStr)
      THEN LET result == JSONparse(jsonStr).v
           IN  [outcome |-> "ok",
                response |-> MkAnalysis(fileName, Today,
                               ClampScore(Prop(result, <<"score">>).n2),
                               Prop(result, <<"items">>).kids,
                               OrElse(Prop(result, <<"generalClauses">>), JArr(<<>>)),
                               OrElse(Prop(result, <<"executiveSummary">>), JStr(DefaultSummary)),
                               OrElse(Prop(result, <<"recommendedClauses">>), JArr(<<>>))),
                isPartial |-> FALSE,
                recoveredCount |-> Len(Prop(result, <<"items">>).kids)]
      ELSE LET recoveredItems == recoverItemsFromTruncatedJson(jsonStr)
           IN  IF Len(recoveredItems) > 0
               THEN [outcome |-> "ok",
                     response |-> MkAnalysis(fileName, Today,
                                    calculateScoreFromItems(recoveredItems),
                                    recoveredItems,
                                    RecoverGeneralClauses(jsonStr),
                                    JStr(PartialPrefix(Len(recoveredItems))
                                         \o RecoverExecutiveSummary(jsonStr)),
                                    JArr(<<>>)),
                     isPartial |-> TRUE,
                     recoveredCount |-> Len(recoveredItems)]
               ELSE [outcome |-> "error", response |-> NoAnalysis,
                     isPartial |-> FALSE, recoveredCount |-> 0]

\* ------------------------------------------------------------------------
\* The completion service: the JSON text of a value, in the output format
\* the prompt asks for. sp is the white space written after a colon and a
\* comma.
\* ------------------------------------------------------------------------
\* the lexemes of one character inside a JSON string literal
EscapeLex(l) ==
  IF l = QUOTE THEN <<BSLASH, QUOTE>>
  ELSE IF l = BSLASH THEN <<BSLASH, BSLASH>>
  ELSE IF l = NEWLINE THEN <<BSLASH, "n">>
  ELSE <<l>>

RECURSIVE Escape(_, _)
Escape(s, n) ==
  IF n = 0 THEN <<>>
  ELSE IF Len(EscapeLex(s[n])) = 2
  THEN Escape(s, n - 1) \o EscapeLex(s[n])
  ELSE Append(Escape(s, n - 1), s[n])

StringLiteral(s) == <<QUOTE>> \o Escape(s, Len(s)) \o <<QUOTE>>

RECURSIVE Stringify(_, _)
RECURSIVE StringifyKids(_, _, _)
RECURSIVE StringifyMembers(_, _, _, _)
StringifyKids(kids, n, sp) ==
  IF n = 0 THEN <<>>
  ELSE IF n = 1 THEN Stringify(kids[1], sp)
  ELSE StringifyKids(kids, n - 1, sp) \o <<COMMA>> \o sp \o Stringify(kids[n], sp)

StringifyMembers(keys, kids, n, sp) ==
  IF n = 0 THEN <<>>
  ELSE LET member == StringLiteral(keys[n]) \o <<COLON>> \o sp \o Stringify(kids[n], sp)
       IN  IF n = 1 THEN member
           ELSE StringifyMembers(keys, kids, n - 1, sp) \o <<COMMA>> \o sp \o member

Stringify(v, sp) ==
  CASE v.t = "str" -> StringLiteral(v.s)
    [] v.t = "num" -> <<NumText(v.n2)>>
    [] v.t = "bool" -> IF v.n2 = 1 THEN <<"true">> ELSE <<"false">>
    [] v.t = "arr" -> <<LBRACK>> \o StringifyKids(v.kids, Len(v.kids), sp) \o <<RBRACK>>
    [] v.t = "obj" -> <<LBRACE>> \o StringifyMembers(v.keys, v.kids, Len(v.keys), sp) \o <<RBRACE>>
    [] OTHER -> <<"null">>

\* an item object in the key order of the output format; an empty
\* foundClause stands for an item without one
MkItem(requirementId, status, comment, foundClause) ==
  LET base == JObj(<<K_requirementId, K_status, K_comment>>,
                   <<JStr(requirementId), JStr(status), JStr(comment)>>)
  IN  IF foundClause = <<>> THEN base ELSE SetProp(base, K_foundClause, JStr(foundClause))

\* all sequences over S of length at most n
SeqsUpTo(S, n) == UNION {[1..k -> S] : k \in 0..n}

\* ------------------------------------------------------------------------
\* State
\* ------------------------------------------------------------------------
VARIABLES
  pc,            \* the step last taken
  items,         \* the item list handed to calculateScoreFromItems
  score,         \* the score it returned
  prevItems,     \* the item list before the last edit
  prevScore,     \* and its score
  analysis,      \* the ContractAnalysis handed to the clamp
  validated,     \* what validateCriticalRequirements returned
  revalidated,   \* what it returned for its own result
  report,        \* what transformToFrontendFormat returned
  payload,       \* the JSON value the completion service writes
  cut,           \* the number of lexemes written before the output stops, 0 for all
  spacing,       \* the white space it writes after a colon and a comma
  responseText,  \* the text parseAIResponse reads
  parsed,        \* what parseAIResponse returned
  entry,         \* the entry point of the run
  error,         \* the error the run threw
  contentLength, \* content.length of the run
  inflight,      \* the provider whose request is in flight, "none" without one
  effects,       \* what the run did outside itself, in order: buildPrompt, fetch
  events,        \* the events handed to onEvent, in order
  upstream,      \* the body of a response whose status is not ok
  message,       \* the message of the error the run threw
  calls,         \* the provider calls in progress, each with its timer and request
  runs,          \* the runs of analyzeContract in progress, each with its locals
  stream         \* the response body a stream generator reads, its buffer and its yields

vars == <<pc, items, score, prevItems, prevScore, analysis, validated, revalidated,
          report, payload, cut, spacing, responseText, parsed, entry, error,
          contentLength, inflight, effects, events, upstream, message, calls,
          runs, stream>>

scoreVars == <<items, score, prevItems, prevScore>>
ruleVars  == <<analysis, validated, revalidated, report>>
parseVars == <<payload, cut, spacing, responseText, parsed>>
runVars   == <<entry, error, contentLength, inflight, effects, events, upstream, message,
               calls, runs, stream>>

NoStream == [phase |-> "none", provider |-> "none", body |-> <<>>, pos |-> 0, buffer |-> <<>>,
             yielded |-> <<>>]
NoReport == [overallScore |-> 0, summary |-> <<>>, findings |-> <<>>]
NoParse == [outcome |-> "none", response |-> NoAnalysis, isPartial |-> FALSE, recoveredCount |-> 0]

ScoreIdle == items = <<>> /\ score = 0 /\ prevItems = <<>> /\ prevScore = 0
RuleIdle  == analysis = NoAnalysis /\ validated = NoAnalysis /\ revalidated = NoAnalysis
             /\ report = NoReport
ParseIdle == payload = Undef /\ cut = 0 /\ spacing = <<>> /\ responseText = <<>>
             /\ parsed = NoParse
RunIdle   == /\ entry = "none" /\ error = "none" /\ contentLength = 0 /\ inflight = "none"
             /\ effects = <<>> /\ events = <<>> /\ upstream = <<>> /\ message = <<>>
             /\ calls = <<>> /\ runs = <<>> /\ stream = NoStream

\* ------------------------------------------------------------------------
\* Scoring: calculateScoreFromItems on bounded item lists
\* ------------------------------------------------------------------------
MaxScoreItems == 3

\* a CRITICAL and a MAJOR requirement of the catalog, and an id that is not in it
ScoreIds == {<<"I.7">>, <<"I.2">>, <<"X.9">>}
ScoreItems == {MkItem(id, st, <<"ok">>, <<>>) : id \in ScoreIds, st \in RequirementStatus}

\* ABSENT < PARTIAL < IMPLICIT < COMPLIANT
StatusRank(st) ==
  CASE st = ABSENT -> 0
    [] st = PARTIAL -> 1
    [] st = IMPLICIT -> 2
    [] st = COMPLIANT -> 3
    [] OTHER -> -1

\* the statuses that rank higher than st; none for NA
HigherStatuses(st) ==
  {h \in RequirementStatus \ {NA} : st # NA /\ StatusRank(h) > StatusRank(st)}

InitScore ==
  /\ pc = "items"
  /\ items \in SeqsUpTo(ScoreItems, MaxScoreItems)
  /\ score = 0 /\ prevItems = <<>> /\ prevScore = 0
  /\ RuleIdle /\ ParseIdle /\ RunIdle

\* calculateScoreFromItems(items)
Score ==
  /\ pc = "items"
  /\ score' = calculateScoreFromItems(items)
  /\ pc' = "scored"
  /\ UNCHANGED <<items, prevItems, prevScore, ruleVars, parseVars, runVars>>

\* calculateScoreFromItems of the list with one more item, of status NA
AppendNA(id) ==
  /\ pc = "scored"
  /\ prevItems' = items
  /\ prevScore' = score
  /\ items' = Append(items, MkItem(id, NA, <<"n/a">>, <<>>))
  /\ score' = calculateScoreFromItems(items')
  /\ pc' = "appended"
  /\ UNCHANGED <<ruleVars, parseVars, runVars>>

\* calculateScoreFromItems of the list with the status of item i raised to h
RaiseStatus(i, h) ==
  /\ pc = "scored"
  /\ i \in 1..Len(items)
  /\ h \in HigherStatuses(Prop(items[i], K_status).s)
  /\ prevItems' = items
  /\ prevScore' = score
  /\ items' = [items EXCEPT ![i] = SetProp(items[i], K_status, JStr(h))]
  /\ score' = calculateScoreFromItems(items')
  /\ pc' = "raised"
  /\ UNCHANGED <<ruleVars, parseVars, runVars>>

NextScore ==
  \/ Score
  \/ \E id \in ScoreIds : AppendNA(id)
  \/ \E i \in 1..MaxScoreItems, h \in RequirementStatus : RaiseStatus(i, h)

SpecScore == InitScore /\ [][NextScore]_vars

\* ------------------------------------------------------------------------
\* Rules: the clamp and the transformer on bounded analyses
\* ------------------------------------------------------------------------
MaxRuleItems == 2

\* two never-IMPLICIT requirements, a MAJOR one, and two ids that are not
\* in the catalog, one of them with the prefix of a section
RuleIds == {<<"I.7">>, <<"II.4">>, <<"I.2">>, <<"X.9">>, <<"I.99">>}
RuleItems ==
  {MkItem(id, st, <<"ok">>, fc) : id \in RuleIds, st \in RequirementStatus,
                                  fc \in {<<>>, <<"Art. 12">>}}
RuleScores == {40, 90}
RuleClause ==
  JObj(<<K_title, K_reference, K_textFr>>,
       <<JStr(<<"Clause">>), JStr(<<"I.2">>), JStr(<<"Article X">>)>>)
RuleRecommendedClauses == {JArr(<<>>), JArr(<<RuleClause>>)}

InitRules ==
  /\ pc = "analysis"
  /\ \E its \in SeqsUpTo(RuleItems, MaxRuleItems), sc \in RuleScores,
        rc \in RuleRecommendedClauses :
       analysis = MkAnalysis(<<"contrat.pdf">>, Today, sc, its,
                             JArr(<<JStr(<<"Art. 15.3">>)>>), JStr(<<"Resume">>), rc)
  /\ validated = NoAnalysis /\ revalidated = NoAnalysis /\ report = NoReport
  /\ ScoreIdle /\ ParseIdle /\ RunIdle

\* validateCriticalRequirements(analysis)
Clamp ==
  /\ pc = "analysis"
  /\ ~validateCriticalRequirementsThrows(analysis)
  /\ validated' = validateCriticalRequirements(analysis)
  /\ pc' = "clamped"
  /\ UNCHANGED <<analysis, revalidated, report, scoreVars, parseVars, runVars>>

\* validateCriticalRequirements on its own result
ClampAgain ==
  /\ pc = "clamped"
  /\ revalidated' = validateCriticalRequirements(validated)
  /\ pc' = "reclamped"
  /\ UNCHANGED <<analysis, validated, report, scoreVars, parseVars, runVars>>

\* transformToFrontendFormat(validated)
Transform ==
  /\ pc = "clamped"
  /\ ~transformToFrontendFormatThrows(validated)
  /\ report' = transformToFrontendFormat(validated)
  /\ pc' = "reported"
  /\ UNCHANGED <<analysis, validated, revalidated, scoreVars, parseVars, runVars>>

NextRules == Clamp \/ ClampAgain \/ Transform

SpecRules == InitRules /\ [][NextRules]_vars

\* ------------------------------------------------------------------------
\* Parsing: parseAIResponse on the text of bounded payloads, whole or cut
\* off by the output limit of the completion service
\* ------------------------------------------------------------------------
MaxParseItems == 2

ParseComments == {<<"ok">>, <<"voir", QUOTE, "art", QUOTE>>, <<FENCE, "x", FENCE>>}
ParseClauses == {<<>>, <<"art", LBRACE, "3", RBRACE, "al">>}
ParseItems ==
  {MkItem(h[1], h[2], c, fc) : h \in {<<<<"I.7">>, IMPLICIT>>, <<<<"I.2">>, ABSENT>>},
                               c \in ParseComments, fc \in ParseClauses}
\* twice the scores a payload asserts: 85, 150 and 49.5
ParseScores2 == {170, 300, 99}
Spacings == {<<>>, <<WS>>}

\* the payload object in the key order of the output format
MkPayload(its, score2) ==
  JObj(<< <<"items">>, <<"score">>, <<"generalClauses">>, <<"executiveSummary">>,
          <<"recommendedClauses">> >>,
       <<JArr(its), JNum2(score2), JArr(<<JStr(<<"Art. 15.3">>)>>), JStr(<<"Resume">>),
         JArr(<<>>)>>)

FileName == <<"contrat.pdf">>

InitParse ==
  /\ pc = "written"
  /\ \E its \in SeqsUpTo(ParseItems, MaxParseItems), sc \in ParseScores2 :
       payload = MkPayload(its, sc)
  /\ spacing \in Spacings
  /\ responseText = Stringify(payload, spacing)
  /\ cut = 0
  /\ parsed = NoParse
  /\ ScoreIdle /\ RuleIdle /\ RunIdle

\* the output stops after c lexemes
Truncate(c) ==
  /\ pc = "written"
  /\ c \in 1..(Len(responseText) - 1)
  /\ responseText' = SubSeq(responseText, 1, c)
  /\ cut' = c
  /\ pc' = "truncated"
  /\ UNCHANGED <<payload, spacing, parsed, scoreVars, ruleVars, runVars>>

\* parseAIResponse(responseText, fileName)
Parse ==
  /\ pc \in {"written", "truncated"}
  /\ parsed' = parseAIResponse(responseText, FileName)
  /\ pc' = "parsed"
  /\ UNCHANGED <<payload, cut, spacing, responseText, scoreVars, ruleVars, runVars>>

NextParse ==
  \/ \E c \in 1..(Len(responseText) - 1) : Truncate(c)
  \/ Parse

SpecParse == InitParse /\ [][NextParse]_vars

\* ------------------------------------------------------------------------
\* Shapes and fences: parseAIResponse on the text of JSON objects of any
\* shape, bare or inside a fenced code block with commentary around it
\* ------------------------------------------------------------------------
MaxShapeItems == 2

ShapeComments == {<<"ok">>, <<"a", FENCE, "b">>}
ShapeItems ==
  {MkItem(<<"I.2">>, ABSENT, c, <<>>) : c \in ShapeComments}
    \cup {MkItem(<<"I.7">>, IMPLICIT, <<"ok">>, <<>>)}
\* the values of items: lists of items, a single item object, a string
ShapeItemsValues ==
  {JArr(its) : its \in SeqsUpTo(ShapeItems, MaxShapeItems)}
    \cup ShapeItems \cup {JStr(<<"none">>)}
\* the values of score: 85, the string "85", null, and no score at all
ShapeScores == {JNum2(170), JStr(<<"85">>), JNull, Undef}

MkShapePayload(itemsValue, scoreValue) ==
  LET head == JObj(<< <<"items">> >>, <<itemsValue>>)
      scored == IF scoreValue = Undef THEN head ELSE SetProp(head, <<"score">>, scoreValue)
  IN  SetProp(scored, <<"executiveSummary">>, JStr(<<"Resume">>))

\* the commentary of the completion service around a fenced block
CommentaryBefore ==
  {<<>>, <<"Voici", WS, "l'analyse", COLON, NEWLINE>>,
   <<"Format", WS, LBRACE, "items", RBRACE, NEWLINE>>}
CommentaryAfter == {<<>>, <<NEWLINE, "Fin", WS, LBRACE, "v3.1", RBRACE>>}
FenceTags == {<<>>, <<"json">>}

InitShape ==
  /\ pc = "written"
  /\ \E iv \in ShapeItemsValues, sv \in ShapeScores : payload = MkShapePayload(iv, sv)
  /\ spacing = <<>>
  /\ responseText = Stringify(payload, spacing)
  /\ cut = 0
  /\ parsed = NoParse
  /\ ScoreIdle /\ RuleIdle /\ RunIdle

\* the completion service answers with the JSON text in a fenced block
Wrap(before, tag, after) ==
  /\ pc = "written"
  /\ responseText' = before \o <<FENCE>> \o tag \o <<NEWLINE>> \o responseText
                       \o <<NEWLINE, FENCE>> \o after
  /\ pc' = "wrapped"
  /\ UNCHANGED <<payload, cut, spacing, parsed, scoreVars, ruleVars, runVars>>

\* parseAIResponse(responseText, fileName) of a fenced answer
ParseWrapped ==
  /\ pc = "wrapped"
  /\ parsed' = parseAIResponse(responseText, FileName)
  /\ pc' = "parsedWrapped"
  /\ UNCHANGED <<payload, cut, spacing, responseText, scoreVars, ruleVars, runVars>>

NextShape ==
  \/ \E b \in CommentaryBefore, t \in FenceTags, a \in CommentaryAfter : Wrap(b, t, a)
  \/ Parse
  \/ ParseWrapped

SpecShape == InitShape /\ [][NextShape]_vars

\* ------------------------------------------------------------------------
\* A run of an entry point: analyzeContract, analyzeContractRaw or
\* analyzeContractWithEvents, up to the await of the provider call and
\* from its reply on
\* ------------------------------------------------------------------------
MIN_CONTENT_CHARS == 100
MAX_CONTENT_CHARS == 120000

EntryPoints == {"analyzeContract", "analyzeContractRaw", "analyzeContractWithEvents"}
Providers == {"anthropic", "gemini", "openai"}
RunProviders == Providers \cup {"mistral"}
RunContentLengths == {MIN_CONTENT_CHARS - 1, MIN_CONTENT_CHARS, MAX_CONTENT_CHARS,
                      MAX_CONTENT_CHARS + 1}

MaxRunItems == 2

\* an item whose status is the array ["IMPLICIT"]
ArrayStatusItem ==
  JObj(<<K_requirementId, K_status, K_comment>>,
       <<JStr(<<"I.7">>), JArr(<<JStr(IMPLICIT)>>), JStr(<<"ok">>)>>)

\* an item without a requirementId
NoIdItem == JObj(<<K_status, K_comment>>, <<JStr(ABSENT), JStr(<<"ok">>)>>)

RunItems ==
  {MkItem(<<"I.7">>, IMPLICIT, <<"ok">>, <<>>),
   MkItem(<<"II.10">>, IMPLICIT, <<"ok">>, <<"Art. 12">>),
   MkItem(<<"I.2">>, IMPLICIT, <<"ok">>, <<>>),
   MkItem(<<"I.2">>, ABSENT, <<"ok">>, <<>>),
   ArrayStatusItem,
   NoIdItem,
   JNull}
RunPayloads == {MkPayload(its, 180) : its \in SeqsUpTo(RunItems, MaxRunItems)}

Init ==
  /\ pc = "idle"
  /\ ScoreIdle /\ RuleIdle /\ ParseIdle /\ RunIdle

\* the two tests of content.length, the stricter tests of a validation
\* that rejects the limits themselves
ContentErrorStrict(len) ==
  IF len <= MIN_CONTENT_CHARS THEN "Content too short"
  ELSE IF len >= MAX_CONTENT_CHARS THEN "Content too long"
  ELSE "none"

\* the two tests of content.length at the head of an entry point
ContentError(len) ==
  IF len < MIN_CONTENT_CHARS THEN "Content too short"
  ELSE IF len > MAX_CONTENT_CHARS THEN "Content too long"
  ELSE "none"

\* a StreamEvent: its type, the number of a step event, the code of an error event
Event(type, step, code) == [type |-> type, step |-> step, code |-> code]
StartEvent == Event("start", 0, "")
StepEvent(n) == Event("step", n, "")
DoneEvent == Event("done", 0, "")
ErrorEvent(code) == Event("error", 0, code)

\* emitEvent(onEvent, event) of analyzeContractWithEvents, onEvent given;
\* the other entry points emit nothing
emitEvent(e, log, event) ==
  IF e = "analyzeContractWithEvents" THEN Append(log, event) ELSE log

\* The entry point up to the provider call: the test of the content
\* length, buildPrompt, and the switch on the provider.
Call(e, len, p) ==
  /\ pc = "idle"
  /\ entry' = e
  /\ contentLength' = len
  /\ error' = IF ContentError(len) # "none" THEN ContentError(len)
              ELSE IF p \notin Providers THEN "Unknown AI provider"
              ELSE "none"
  /\ message' = IF error' = "none" THEN <<>> ELSE <<error'>>
  /\ effects' = IF ContentError(len) # "none" THEN <<>>
                ELSE IF p \notin Providers THEN <<"buildPrompt">>
                ELSE <<"buildPrompt", "fetch">>
  /\ inflight' = IF error' = "none" THEN p ELSE "none"
  /\ events' =
       IF ContentError(len) = "Content too short"
       THEN emitEvent(e, <<>>, ErrorEvent("CONTENT_TOO_SHORT"))
       ELSE IF ContentError(len) = "Content too long"
       THEN emitEvent(e, <<>>, ErrorEvent("CONTENT_TOO_LONG"))
       ELSE LET started == emitEvent(e, emitEvent(e, emitEvent(e, <<>>, StartEvent),
                                                  StepEvent(1)), StepEvent(2))
            IN  IF p \notin Providers THEN emitEvent(e, started, ErrorEvent("AI_ERROR"))
                ELSE started
  /\ pc' = IF error' = "none" THEN "awaiting" ELSE "thrown"
  /\ UNCHANGED <<upstream, calls, runs, stream, scoreVars, ruleVars, parseVars>>

\* the message of the Error a provider call throws for a response that is
\* not ok, without the body
ProviderErrorBare(p, body) ==
  CASE p = "anthropic" -> <<"Anthropic API error: ">>
    [] p = "gemini" -> <<"Gemini API error: ">>
    [] p = "openai" -> <<"OpenAI API error: ">>

\* the message of the Error a provider call throws for a response that is
\* not ok: the name of the provider and the body of the response
ProviderError(p, body) ==
  CASE p = "anthropic" -> <<"Anthropic API error: ", body>>
    [] p = "gemini" -> <<"Gemini API error: ", body>>
    [] p = "openai" -> <<"OpenAI API error: ", body>>

UpstreamBodies == {"overloaded_error", "invalid x-api-key"}

\* fetch resolves with a response whose status is not ok
Refuse(body) ==
  /\ pc = "awaiting"
  /\ upstream' = <<body>>
  /\ pc' = "refused"
  /\ UNCHANGED <<entry, error, contentLength, inflight, effects, events, message, calls, runs, stream,
                 scoreVars, ruleVars, parseVars>>

\* The provider call reads the body of that response and throws; the entry
\* point rethrows, analyzeContractWithEvents after the event of the error.
Fail ==
  /\ pc = "refused"
  /\ error' = "API error"
  /\ message' = ProviderError(inflight, upstream[1])
  /\ inflight' = "none"
  /\ events' = emitEvent(entry, events, ErrorEvent("AI_ERROR"))
  /\ pc' = "thrown"
  /\ UNCHANGED <<entry, contentLength, effects, upstream, calls, runs, stream,
                 scoreVars, ruleVars, parseVars>>

\* fetch, or the reading of a body, rejects: the abort of the timeout or a
\* failure of the network. The entry point rethrows likewise.
Abort ==
  /\ pc \in {"awaiting", "refused"}
  /\ error' = "AbortError"
  /\ message' = <<"This operation was aborted">>
  /\ inflight' = "none"
  /\ events' = emitEvent(entry, events, ErrorEvent("AI_ERROR"))
  /\ pc' = "thrown"
  /\ UNCHANGED <<entry, contentLength, effects, upstream, calls, runs, stream,
                 scoreVars, ruleVars, parseVars>>

\* The provider call resolves with the first c lexemes of text, the text
\* of payload p (all of it for c = 0).
Reply(p, text, c) ==
  /\ pc = "awaiting"
  /\ payload' = p
  /\ spacing' = <<>>
  /\ cut' = c
  /\ responseText' = IF c = 0 THEN text ELSE SubSeq(text, 1, c)
  /\ inflight' = "none"
  /\ pc' = "replied"
  /\ UNCHANGED <<parsed, entry, error, contentLength, effects, events, upstream, message,
                 calls, runs, stream, scoreVars, ruleVars>>

\* the reply of the provider, over the payloads and the places the output
\* limit can cut their text
Answer ==
  /\ pc = "awaiting"
  /\ \E p \in RunPayloads :
       LET text == Stringify(p, <<>>)
       IN  \E c \in 0..(Len(text) - 1) : Reply(p, text, c)

\* The entry point from the reply on: it parses, clamps and, but for
\* analyzeContractRaw, transforms. analyzeContractWithEvents emits step 3
\* before the parse, the event of an error of the parse or the clamp, step
\* 4 before the transformation and done after it.
Process ==
  /\ pc = "replied"
  /\ parsed' = parseAIResponse(responseText, FileName)
  /\ LET step3 == emitEvent(entry, events, StepEvent(3))
         failed == emitEvent(entry, step3, ErrorEvent("PARSE_ERROR"))
         step4 == emitEvent(entry, step3, StepEvent(4))
     IN  IF parsed'.outcome = "error"
         THEN /\ pc' = "thrown" /\ error' = "JSON invalide"
              /\ message' = <<"Erreur de formatage de l'analyse (JSON invalide)">>
              /\ events' = failed
              /\ UNCHANGED <<validated, report>>
         ELSE IF validateCriticalRequirementsThrows(parsed'.response)
         THEN /\ pc' = "thrown" /\ error' = "TypeError"
              /\ message' = <<"Cannot read properties of null">>
              /\ events' = failed
              /\ UNCHANGED <<validated, report>>
         ELSE /\ validated' = validateCriticalRequirements(parsed'.response)
              /\ IF entry = "analyzeContractRaw"
                 THEN pc' = "returned" /\ UNCHANGED <<report, error, message, events>>
                 ELSE IF calculateScoreThrows(validated'.items)
                         \/ transformToFrontendFormatThrows(validated')
                 THEN /\ pc' = "thrown" /\ error' = "TypeError"
                      /\ message' = <<"Cannot read properties of undefined">>
                      /\ events' = step4
                      /\ UNCHANGED report
                 ELSE /\ pc' = "returned" /\ UNCHANGED <<error, message>>
                      /\ report' = transformToFrontendFormat(validated')
                      /\ events' = emitEvent(entry, step4, DoneEvent)
  /\ UNCHANGED <<analysis, revalidated, payload, cut, spacing, responseText, entry,
                 contentLength, inflight, effects, upstream, calls, runs, stream, scoreVars>>

Next ==
  \/ \E e \in EntryPoints, len \in RunContentLengths, p \in RunProviders : Call(e, len, p)
  \/ \E body \in UpstreamBodies : Refuse(body)
  \/ Fail
  \/ Abort
  \/ Answer
  \/ Process

Spec == Init /\ [][Next]_vars

\* ------------------------------------------------------------------------
\* Provider calls: callAnthropic, callGemini and callOpenAI, each with the
\* AbortController and the timer it creates. Time is not measured: the
\* timer of a call may expire at any moment while it is armed.
\* ------------------------------------------------------------------------
MaxCalls == 2

IdleCall ==
  [provider |-> "none", phase |-> "idle", timer |-> "unset", request |-> "none",
   ok |-> FALSE, outcome |-> "none"]

callVarsOnly == <<pc, entry, error, contentLength, inflight, effects, events, upstream,
                  message, runs, stream, scoreVars, ruleVars, parseVars>>

InitCalls ==
  /\ pc = "calls"
  /\ calls = [i \in 1..MaxCalls |-> IdleCall] /\ runs = <<>> /\ stream = NoStream
  /\ entry = "none" /\ error = "none" /\ contentLength = 0 /\ inflight = "none"
  /\ effects = <<>> /\ events = <<>> /\ upstream = <<>> /\ message = <<>>
  /\ ScoreIdle /\ RuleIdle /\ ParseIdle

\* a finally block that forgets the timer
clearTimeoutNever(timer) == timer

\* clearTimeout(timeoutId): a timer that has fired stays as it is
clearTimeout(timer) == IF timer = "armed" THEN "cleared" ELSE timer

\* new AbortController(), setTimeout(() => controller.abort(), REQUEST_TIMEOUT_MS)
\* and the call of fetch with the signal of the controller
StartCall(i, p) ==
  /\ calls[i].phase = "idle"
  /\ calls' = [calls EXCEPT ![i] = [provider |-> p, phase |-> "fetching", timer |-> "armed",
                                    request |-> "inflight", ok |-> FALSE, outcome |-> "none"]]
  /\ UNCHANGED callVarsOnly

\* the timer of call i expires: its callback aborts the controller of call
\* i, and with it the request that listens to its signal
Expire(i) ==
  /\ calls[i].timer = "armed"
  /\ calls' = [calls EXCEPT ![i].timer = "fired",
                            ![i].request = IF @ = "inflight" THEN "aborted" ELSE @]
  /\ UNCHANGED callVarsOnly

\* fetch resolves with the head of the response, ok or not
Respond(i, isOk) ==
  /\ calls[i].phase = "fetching" /\ calls[i].request = "inflight"
  /\ calls' = [calls EXCEPT ![i].phase = "reading", ![i].ok = isOk]
  /\ UNCHANGED callVarsOnly

\* the body is read: the call returns the text, or throws the provider
\* error for a response that is not ok; the finally block clears the timer
Finish(i) ==
  /\ calls[i].phase = "reading" /\ calls[i].request = "inflight"
  /\ calls' = [calls EXCEPT ![i].phase = "done",
                            ![i].request = "complete",
                            ![i].outcome = IF calls[i].ok THEN "text" ELSE "API error",
                            ![i].timer = clearTimeout(@)]
  /\ UNCHANGED callVarsOnly

\* the aborted fetch, or the aborted reading of the body, rejects: the
\* call throws the abort error through the finally block
Reject(i) ==
  /\ calls[i].phase \in {"fetching", "reading"} /\ calls[i].request = "aborted"
  /\ calls' = [calls EXCEPT ![i].phase = "done",
                            ![i].outcome = "AbortError",
                            ![i].timer = clearTimeout(@)]
  /\ UNCHANGED callVarsOnly

NextCalls ==
  \E i \in 1..MaxCalls :
    \/ \E p \in Providers : StartCall(i, p)
    \/ Expire(i)
    \/ \E isOk \in BOOLEAN : Respond(i, isOk)
    \/ Finish(i)
    \/ Reject(i)

SpecCalls == InitCalls /\ [][NextCalls]_vars

\* ------------------------------------------------------------------------
\* Claims on scoring
\* ------------------------------------------------------------------------
IsScored == pc \in {"scored", "appended", "raised"}

\* the status values and weights as the documentation states them
DocStatusValue(item) ==
  LET st == Prop(item, K_status).s
  IN  CASE st = COMPLIANT -> 100
        [] st = IMPLICIT -> 70
        [] st = PARTIAL -> 30
        [] OTHER -> 0

DocWeight(item) ==
  LET hits == {i \in 1..Len(CHECKLIST) : CHECKLIST[i].id = Prop(item, K_requirementId).s}
  IN  IF hits = {} THEN 1
      ELSE LET c == CHECKLIST[SetMin(hits)].criticality
           IN  IF c = "CRITICAL" THEN 3 ELSE IF c = "MAJOR" THEN 2 ELSE 1

RECURSIVE DocNumerator(_, _)
DocNumerator(list, n) ==
  IF n = 0 THEN 0
  ELSE IF Prop(list[n], K_status).s = NA THEN DocNumerator(list, n - 1)
  ELSE DocNumerator(list, n - 1) + DocStatusValue(list[n]) * DocWeight(list[n])

RECURSIVE DocDenominator(_, _)
DocDenominator(list, n) ==
  IF n = 0 THEN 0
  ELSE IF Prop(list[n], K_status).s = NA THEN DocDenominator(list, n - 1)
  ELSE DocDenominator(list, n - 1) + 100 * DocWeight(list[n])

\* round(100 * num / den), a half rounded up, in exact arithmetic
DocScore(list) ==
  LET num == DocNumerator(list, Len(list))
      den == DocDenominator(list, Len(list))
  IN  IF den = 0 THEN 0 ELSE (200 * num + den) \div (2 * den)

\* C4: calculateScoreFromItems returns round(100 * sum(statusValue * weight)
\* / sum(100 * weight)) over the items that are not NA, and 0 when that
\* denominator is 0.
C4_ScoreIsRoundedRatio == IsScored => score = DocScore(items)

\* C4, the two examples of the claim: [COMPLIANT, ABSENT] of equal weight
\* gives 50 and a single PARTIAL item for I.7 gives 30.
C4_Examples ==
  /\ (IsScored /\ items = <<MkItem(<<"X.9">>, COMPLIANT, <<"ok">>, <<>>),
                            MkItem(<<"X.9">>, ABSENT, <<"ok">>, <<>>)>>) => score = 50
  /\ (IsScored /\ items = <<MkItem(<<"I.7">>, PARTIAL, <<"ok">>, <<>>)>>) => score = 30

\* C5: appending an item of status NA, whatever its id, leaves the score
\* as it was.
C5_NAExcluded == pc = "appended" => score = prevScore

C5_Witness ==
  /\ pc = "appended"
  /\ Len(prevItems) = 2
  /\ prevScore = 85
  /\ IsStr(Prop(items[3], K_requirementId), <<"I.7">>)
  /\ IsStr(Prop(items[3], K_status), NA)

\* C6: the score is an integer from 0 to 100, and raising one item's
\* status (ABSENT < PARTIAL < IMPLICIT < COMPLIANT) with the other items
\* fixed never lowers it.
C6_RangeAndMonotone ==
  /\ IsScored => score \in 0..100
  /\ pc = "raised" => score >= prevScore

C6_Witness ==
  /\ pc = "raised"
  /\ Len(items) = 3
  /\ \E i \in 1..3 : /\ IsStr(Prop(prevItems[i], K_status), PARTIAL)
                     /\ IsStr(Prop(items[i], K_status), IMPLICIT)
  /\ score > prevScore
  /\ score < 100

\* ------------------------------------------------------------------------
\* Claims on the clamp and the transformer
\* ------------------------------------------------------------------------
\* the ids that may never be IMPLICIT, as the documentation lists them
NeverImplicit == {<<"I.7">>, <<"I.10">>, <<"II.4">>, <<"II.10">>}

IsClamped == pc \in {"clamped", "reclamped", "reported"}

HasNeverImplicitId(item) ==
  Prop(item, K_requirementId).t = "str" /\ Prop(item, K_requirementId).s \in NeverImplicit

\* C1: after the clamp no item whose id is in the never-IMPLICIT set has
\* status IMPLICIT; every such item that was IMPLICIT has status PARTIAL.
C1_NoCriticalImplicit ==
  IsClamped =>
    \A i \in 1..Len(validated.items) :
      HasNeverImplicitId(validated.items[i]) =>
        /\ ~IsStr(Prop(validated.items[i], K_status), IMPLICIT)
        /\ IsStr(Prop(analysis.items[i], K_status), IMPLICIT) =>
             IsStr(Prop(validated.items[i], K_status), PARTIAL)

C1_Witness ==
  /\ pc = "clamped"
  /\ Len(analysis.items) = 2
  /\ IsStr(Prop(analysis.items[1], K_requirementId), <<"II.4">>)
  /\ IsStr(Prop(analysis.items[1], K_status), IMPLICIT)
  /\ IsStr(Prop(validated.items[1], K_status), PARTIAL)
  /\ IsStr(Prop(analysis.items[2], K_requirementId), <<"I.7">>)
  /\ IsStr(Prop(analysis.items[2], K_status), IMPLICIT)

C7_ClampIdempotent == pc = "reclamped" => revalidated = validated

C7_Witness ==
  /\ pc = "reclamped"
  /\ validated # analysis
  /\ \E i \in 1..Len(validated.items) :
       /\ IsStr(Prop(analysis.items[i], K_status), IMPLICIT)
       /\ IsStr(Prop(validated.items[i], K_status), PARTIAL)
       /\ SubSeq(Prop(revalidated.items[i], K_comment).s, 1, 2) = WarnPrefix \o <<"ok">>

\* the fields of an analysis other than its items
OtherFields(a) ==
  <<a.fileName, a.date, a.score, a.generalClauses, a.executiveSummary, a.recommendedClauses>>

\* C8: the clamp keeps the number and order of the items and every item's
\* requirementId and foundClause, returns unchanged every item that is not
\* both of a never-IMPLICIT id and IMPLICIT, keeps score, executiveSummary,
\* generalClauses, recommendedClauses, fileName and date, and does not
\* change the analysis it was given.
C8_ClampFrame ==
  /\ [](IsClamped =>
          /\ Len(validated.items) = Len(analysis.items)
          /\ OtherFields(validated) = OtherFields(analysis)
          /\ \A i \in 1..Len(analysis.items) :
               /\ Prop(validated.items[i], K_requirementId) = Prop(analysis.items[i], K_requirementId)
               /\ Prop(validated.items[i], K_foundClause) = Prop(analysis.items[i], K_foundClause)
               /\ ~(HasNeverImplicitId(analysis.items[i])
                    /\ IsStr(Prop(analysis.items[i], K_status), IMPLICIT))
                    => validated.items[i] = analysis.items[i])
  /\ [][analysis' = analysis]_vars

\* one item clamped, between an IMPLICIT item of an unknown id and
\* nothing else, with a foundClause to keep
C8_Witness ==
  /\ pc = "clamped"
  /\ Len(analysis.items) = 2
  /\ IsStr(Prop(analysis.items[1], K_requirementId), <<"X.9">>)
  /\ IsStr(Prop(validated.items[1], K_status), IMPLICIT)
  /\ IsStr(Prop(analysis.items[2], K_requirementId), <<"I.7">>)
  /\ IsStr(Prop(analysis.items[2], K_status), IMPLICIT)
  /\ IsStr(Prop(validated.items[2], K_foundClause), <<"Art. 12">>)
  /\ validated.items[2] # analysis.items[2]

\* ------------------------------------------------------------------------
\* Claims on parsing
\* ------------------------------------------------------------------------
PayloadItems == Prop(payload, <<"items">>).kids

\* the score a payload asserts, rounded (a half up) and kept within 0..100
RoundedClamped(score2) ==
  LET r == (score2 + 1) \div 2
  IN  IF r < 0 THEN 0 ELSE IF r > 100 THEN 100 ELSE r

\* C9: the text of a well-formed payload (numeric score, items a list)
\* parses with isPartial = false, the payload's items in their order,
\* recoveredCount their number, and the payload's score rounded and kept
\* within 0..100.
C9_StrictRoundTrip ==
  (pc = "parsed" /\ cut = 0) =>
    /\ parsed.outcome = "ok"
    /\ parsed.isPartial = FALSE
    /\ parsed.response.items = PayloadItems
    /\ parsed.recoveredCount = Len(PayloadItems)
    /\ parsed.response.score = RoundedClamped(Prop(payload, <<"score">>).n2)

\* the text before the array of items
ItemsHead == <<LBRACE>> \o StringLiteral(<<"items">>) \o <<COLON>> \o spacing

\* the index of the brace that closes item k in the whole text
ItemEnd(k) == Len(ItemsHead) + Len(Stringify(JArr(SubSeq(PayloadItems, 1, k)), spacing)) - 1

\* the index of the bracket that closes the array of items
ItemsClose == Len(ItemsHead) + Len(Stringify(JArr(PayloadItems), spacing))

\* the number of items written in full within the first c lexemes
CompleteBefore(c) == Cardinality({k \in 1..Len(PayloadItems) : ItemEnd(k) <= c})

\* the output stopped inside the array, after at least one whole item
CutMidArray == cut > 0 /\ Len(PayloadItems) >= 1 /\ ItemEnd(1) <= cut /\ cut < ItemsClose

\* C10: for a payload cut off inside the array of items after at least
\* one whole item, parseAIResponse returns isPartial = true and exactly the
\* items written in full before the cut, in order, none built from the
\* object the cut falls in.
C10_TruncationRecovery ==
  (pc = "parsed" /\ CutMidArray) =>
    /\ parsed.outcome = "ok"
    /\ parsed.isPartial = TRUE
    /\ parsed.response.items = SubSeq(PayloadItems, 1, CompleteBefore(cut))

\* ------------------------------------------------------------------------
\* Claims on the runs of the entry points
\* ------------------------------------------------------------------------
\* what the run hands the clamp is what parseAIResponse returned, and what
\* it hands the transformer is what the clamp returned
ClampBetweenParseAndTransform ==
  /\ validated = validateCriticalRequirements(parsed.response)
  /\ entry # "analyzeContractRaw" => report = transformToFrontendFormat(validated)

\* C2: in every run of the three entry points that returns a result, the
\* clamp runs after the parse (strict or recovered) and before the
\* transformation or the return, so no returned item of a never-IMPLICIT id
\* has status IMPLICIT and no returned finding of such an id has status
\* implicit.
C2_ClampInEveryRun ==
  pc = "returned" =>
    /\ ClampBetweenParseAndTransform
    /\ entry = "analyzeContractRaw" =>
         \A i \in 1..Len(validated.items) :
           HasNeverImplicitId(validated.items[i]) =>
             ~IsStr(Prop(validated.items[i], K_status), IMPLICIT)
    /\ entry # "analyzeContractRaw" =>
         \A i \in 1..Len(report.findings) :
           HasNeverImplicitId(JObj(<<K_requirementId>>, <<report.findings[i].requirementId>>)) =>
             report.findings[i].status # "implicit"

\* C2, the part on the order of the steps alone
C2_ClampPlacement == pc = "returned" => ClampBetweenParseAndTransform

\* C2, the part on the results, for responses whose statuses are strings
C2_StringStatuses ==
  (pc = "returned" /\ \A i \in 1..Len(parsed.response.items) :
                        Prop(parsed.response.items[i], K_status).t = "str")
    => C2_ClampInEveryRun

\* ------------------------------------------------------------------------
\* Claims on the findings of a report
\* ------------------------------------------------------------------------
\* the display vocabulary as the documentation states it
DocDisplayStatus(st) ==
  CASE st = COMPLIANT -> "compliant"
    [] st = PARTIAL -> "partial"
    [] st = IMPLICIT -> "implicit"
    [] st = ABSENT -> "non-compliant"
    [] st = NA -> "not-applicable"

IsReported == pc = "reported" /\ Len(report.findings) = Len(validated.items)

ProposedClause(response, item) ==
  recommendationMapGet(response.recommendedClauses.kids, Prop(item, K_requirementId))

\* the recommendation synthesized for an item, undefined without a catalog entry
SynthesizedRecommendation(item) ==
  LET req == getRequirementById(Prop(item, K_requirementId))
  IN  IF req = <<>> THEN Undef
      ELSE generateAutoRecommendation(Prop(item, K_status), req[1], Prop(item, K_comment))

\* C15: a finding carries a recommendation only if its display status is
\* neither compliant nor not-applicable; the one it carries is the clause
\* the completion service proposed for the requirement when there is one,
\* and the synthesized recommendation otherwise.
C15_RecommendationAttached ==
  pc = "reported" =>
    \A i \in 1..Len(report.findings) :
      LET f == report.findings[i]
          item == validated.items[i]
      IN  Truthy(f.recommendation) =>
            /\ f.status \notin {"compliant", "not-applicable"}
            /\ f.recommendation =
                 IF Truthy(ProposedClause(validated, item))
                 THEN ProposedClause(validated, item)
                 ELSE SynthesizedRecommendation(item)

C15_Witness ==
  /\ IsReported
  /\ \E i \in 1..Len(report.findings) :
       /\ Truthy(ProposedClause(validated, validated.items[i]))
       /\ report.findings[i].recommendation = ProposedClause(validated, validated.items[i])
  /\ \E i \in 1..Len(report.findings) :
       /\ ~Truthy(ProposedClause(validated, validated.items[i]))
       /\ Truthy(report.findings[i].recommendation)
       /\ report.findings[i].recommendation = SynthesizedRecommendation(validated.items[i])

IsUnknownId(item) == getRequirementById(Prop(item, K_requirementId)) = <<>>

\* the three functions complete on the analysis of the state
NeverFatal ==
  /\ pc = "analysis" =>
       ~calculateScoreThrows(analysis.items) /\ ~validateCriticalRequirementsThrows(analysis)
  /\ pc = "clamped" => ~transformToFrontendFormatThrows(validated)

\* one finding per item in the order of the items, and for an item of an
\* unknown id the raw id as the name, no reference, no criticality and no
\* recommendation
DegradedFindings ==
  pc = "reported" =>
    /\ Len(report.findings) = Len(validated.items)
    /\ \A i \in 1..Len(validated.items) :
         /\ report.findings[i].requirementId = Prop(validated.items[i], K_requirementId)
         /\ IsUnknownId(validated.items[i]) =>
              /\ report.findings[i].requirement = Prop(validated.items[i], K_requirementId)
              /\ report.findings[i].reference = Undef
              /\ report.findings[i].criticality = Undef
              /\ report.findings[i].recommendation = Undef

\* C16: an item whose requirementId is not in the catalog is never fatal:
\* the score, the clamp and the transformer complete, the report has one
\* finding per item in the same order, and the finding of the unknown id
\* has the raw id as its name, no reference, no criticality, no section and
\* no synthesized recommendation.
C16_UnknownIdDegrades ==
  /\ NeverFatal
  /\ DegradedFindings
  /\ pc = "reported" =>
       \A i \in 1..Len(validated.items) :
         IsUnknownId(validated.items[i]) => report.findings[i].section = Undef

\* C16 without the section of the finding
C16_ExceptSection == NeverFatal /\ DegradedFindings

\* ------------------------------------------------------------------------
\* Claims on shapes and fences
\* ------------------------------------------------------------------------
\* the JSON candidate of the text parses, and the value is no analysis:
\* its score is no number or its items are no list
IllShaped ==
  LET r == JSONparse(extractJsonString(responseText))
  IN  /\ r.ok
      /\ \/ Prop(r.v, <<"score">>).t # "num"
         \/ Prop(r.v, <<"items">>).t # "arr"

\* C12: when the JSON candidate parses but its score is no number or its
\* items are no list, parseAIResponse ends in an error to the caller, not
\* in a recovered or partial result.
C12_ShapeIsHardFailure ==
  (pc = "parsed" /\ IllShaped) => parsed.outcome = "error"

\* C12 for the values in whose text the recovery pattern finds no item
C12_NothingToRecover ==
  (pc = "parsed" /\ IllShaped
     /\ recoverItemsFromTruncatedJson(extractJsonString(responseText)) = <<>>)
    => parsed.outcome = "error"

WellShaped(p) == Prop(p, <<"score">>).t = "num" /\ Prop(p, <<"items">>).t = "arr"

\* C13: when the response holds a fenced block whose content is a valid
\* JSON analysis, parseAIResponse returns, whatever the commentary before
\* and after the block, what it returns for the bare JSON.
C13_FenceStripping ==
  (pc = "parsedWrapped" /\ WellShaped(payload))
    => parsed = parseAIResponse(Stringify(payload, spacing), FileName)

RECURSIVE HasFence(_)
HasFence(v) ==
  \/ v.t = "str" /\ \E i \in 1..Len(v.s) : v.s[i] = FENCE
  \/ \E k \in 1..Len(v.kids) : HasFence(v.kids[k])

\* C13 for the analyses none of whose strings holds a fence
C13_FenceFreeStrings ==
  (pc = "parsedWrapped" /\ WellShaped(payload) /\ ~HasFence(payload))
    => /\ parsed = parseAIResponse(Stringify(payload, spacing), FileName)
       /\ parsed.outcome = "ok" /\ ~parsed.isPartial

\* ------------------------------------------------------------------------
\* Claims on the failures and the events of a run
\* ------------------------------------------------------------------------
\* the run went past the network: parseAIResponse was applied to a reply
PastNetwork == pc \in {"returned", "thrown"} /\ parsed.outcome # "none"

\* the formatting error of parseAIResponse, raised where the strict parse
\* failed and the recovery found no item
IsFormattingError ==
  /\ error = "JSON invalide"
  /\ parsed.outcome = "error"
  /\ ~StrictOk(extractJsonString(responseText))
  /\ recoverItemsFromTruncatedJson(extractJsonString(responseText)) = <<>>

\* C11: for any response text, parse, clamp and transform either yield a
\* report or fail with the formatting error of parseAIResponse, which is
\* raised only when the strict parse failed and the recovery found no item;
\* no other exception escapes.
C11_SingleFailureMode ==
  PastNetwork => (pc = "returned" \/ IsFormattingError)

\* C11, the part on the formatting error alone
C11_FormattingErrorOnlyWithoutItems ==
  (PastNetwork /\ error = "JSON invalide") => IsFormattingError

\* C11 for the replies whose items are all objects with a requirementId
C11_ObjectItems ==
  (PastNetwork /\ \A i \in 1..Len(parsed.response.items) :
                    /\ parsed.response.items[i].t = "obj"
                    /\ Prop(parsed.response.items[i], K_requirementId).t = "str")
    => (pc = "returned" \/ IsFormattingError)

IsLengthError == error \in {"Content too short", "Content too long"}

\* C17: the three entry points reject content shorter than 100 or longer
\* than 120000 characters with an error before a prompt is built or a
\* request is issued, and accept content of exactly 100 and of exactly
\* 120000 characters.
C17_FailFast ==
  pc # "idle" =>
    /\ (contentLength < 100 \/ contentLength > 120000) =>
         pc = "thrown" /\ IsLengthError /\ effects = <<>> /\ inflight = "none"
    /\ contentLength \in {100, 120000} => ~IsLengthError

C17_Witness ==
  /\ pc = "thrown" /\ entry = "analyzeContractWithEvents"
  /\ contentLength = 120001 /\ error = "Content too long" /\ effects = <<>>

EventTypes(log) == [i \in 1..Len(log) |-> log[i].type]
StepNumbers(log) ==
  LET steps == SelectSeq(log, LAMBDA ev : ev.type = "step")
  IN  [i \in 1..Len(steps) |-> steps[i].step]
IsTerminalEvent(ev) == ev.type \in {"done", "error"}

\* the steps count 1, 2, 3, 4 in order, done comes only after step 4, and
\* nothing follows a terminal event
StepsInOrder ==
  /\ \A i \in 1..Len(StepNumbers(events)) : StepNumbers(events)[i] = i
  /\ Len(StepNumbers(events)) <= 4
  /\ \A i \in 1..Len(events) :
       /\ events[i].type = "done" => Len(StepNumbers(SubSeq(events, 1, i))) = 4
       /\ IsTerminalEvent(events[i]) => i = Len(events)
       /\ events[i].type = "start" => i = 1

\* C18: in every run of analyzeContractWithEvents that emits an event the
\* first event is start, the steps carry the numbers 1, 2, 3, 4 in order,
\* done is emitted only after step 4, and the run ends with a terminal
\* event, done or error, as its last event.
C18_EventLifecycle ==
  events # <<>> =>
    /\ events[1].type = "start"
    /\ StepsInOrder
    /\ pc \in {"returned", "thrown"} => IsTerminalEvent(events[Len(events)])

\* C18 for the runs whose content passes the validation and whose
\* transformation does not throw
C18_StartedAndTransformed ==
  (events # <<>> /\ ~IsLengthError
     /\ ~(pc = "thrown" /\ events[Len(events)] = StepEvent(4)))
    => /\ events[1].type = "start"
       /\ StepsInOrder
       /\ pc \in {"returned", "thrown"} => IsTerminalEvent(events[Len(events)])

\* C18, the order of the events in every run
C18_StepsInOrder == StepsInOrder

Requests == Len(SelectSeq(effects, LAMBDA x : x = "fetch"))

\* C20: for a response whose status is not ok the provider call fails with
\* a provider error whose message holds the body of the response, and
\* nothing is retried: a run issues at most one request, and exactly one
\* when the content length is valid and the provider is known.
C20_ProviderErrorNoRetry ==
  /\ error = "API error" =>
       /\ pc = "thrown" /\ upstream # <<>>
       /\ \E i \in 1..Len(message) : message[i] = upstream[1]
  /\ Requests <= 1
  /\ (pc # "idle" /\ ~IsLengthError /\ error # "Unknown AI provider") => Requests = 1

C20_Witness ==
  /\ pc = "thrown" /\ error = "API error"
  /\ message = <<"Gemini API error: ", "overloaded_error">>
  /\ Requests = 1

CatalogPositions(id) == {k \in 1..Len(CHECKLIST) : CHECKLIST[k].id = id}

SectionSize(section) ==
  Cardinality({k \in 1..Len(CHECKLIST) : CHECKLIST[k].section = section})

SeqRange(s) == {s[k] : k \in 1..Len(s)}

\* the catalog has 35 entries of pairwise distinct ids, 10, 10, 3 and 12 by
\* section, and both lists of never-IMPLICIT ids are the same four ids, each
\* the id of an entry
CatalogWellFormed ==
  /\ Len(CHECKLIST) = 35
  /\ \A k \in 1..Len(CHECKLIST) : CatalogPositions(CHECKLIST[k].id) = {k}
  /\ SectionSize("I") = 10 /\ SectionSize("II") = 10
  /\ SectionSize("III") = 3 /\ SectionSize("IV") = 12
  /\ CRITICAL_REQUIREMENT_IDS = getCriticalRequirementIds
  /\ SeqRange(CRITICAL_REQUIREMENT_IDS) = NeverImplicit
  /\ Len(CRITICAL_REQUIREMENT_IDS) = 4
  /\ \A id \in NeverImplicit : CatalogPositions(id) # {}

\* C21: the ids of the catalog are pairwise distinct over its 35 entries
\* (10, 10, 3 and 12 by section); getRequirementById answers the one entry
\* of that id, or nothing when no entry has it; the never-IMPLICIT ids are
\* the same four in CRITICAL_REQUIREMENT_IDS and getCriticalRequirementIds,
\* each the id of an entry, and the clamp tests them by equality of the id
\* alone.
C21_CatalogIds ==
  /\ CatalogWellFormed
  /\ IsClamped =>
       \A i \in 1..Len(analysis.items) :
         LET id == Prop(analysis.items[i], K_requirementId)
             found == getRequirementById(id)
         IN  /\ id.t = "str" /\ CatalogPositions(id.s) # {} =>
                  /\ Len(found) = 1
                  /\ CatalogPositions(id.s) = {k \in 1..Len(CHECKLIST) : CHECKLIST[k] = found[1]}
             /\ (id.t # "str" \/ CatalogPositions(id.s) = {}) => found = <<>>
             /\ IsCriticalImplicit(analysis.items[i]) <=>
                  /\ HasNeverImplicitId(analysis.items[i])
                  /\ IsStr(Prop(analysis.items[i], K_status), IMPLICIT)

\* a never-IMPLICIT entry and an id of no entry were looked up in one analysis
C21_Witness ==
  /\ pc = "reported"
  /\ Len(analysis.items) = 2
  /\ IsStr(Prop(analysis.items[1], K_requirementId), <<"II.4">>)
  /\ getRequirementById(Prop(analysis.items[1], K_requirementId))[1].criticality = "CRITICAL"
  /\ IsStr(Prop(analysis.items[2], K_requirementId), <<"I.99">>)
  /\ getRequirementById(Prop(analysis.items[2], K_requirementId)) = <<>>
  /\ report.findings[2].requirement = JStr(<<"I.99">>)

\* ------------------------------------------------------------------------
\* Concurrent runs of analyzeContract: each invocation has its own locals
\* (aiResponse, rawResult, validatedResult); the catalog and CONFIG are
\* the only values of the module, and no statement assigns to them.  A run
\* yields at its await and is resumed when its provider call has returned.
\* ------------------------------------------------------------------------
MaxRuns == 2
MaxRunsItems == 1

IdleRun == [phase |-> "idle", aiResponse |-> <<>>, outcome |-> "none", report |-> NoReport]

\* the texts the provider calls return
RunsTexts ==
  {Stringify(MkPayload(its, 180), <<>>) : its \in SeqsUpTo(RunItems, MaxRunsItems)}

\* a binding of aiResponse shared by the invocations: each reads what the
\* first run received
aiResponseShared(rs, i) ==
  IF rs[1].phase \in {"resumed", "done"} THEN rs[1].aiResponse ELSE rs[i].aiResponse

\* let aiResponse: the local of invocation i
aiResponseOf(rs, i) == rs[i].aiResponse

Thrown == [outcome |-> "thrown", report |-> NoReport]

\* return transformToFrontendFormat(validatedResult)
restFromValidatedResult(validatedResult) ==
  IF calculateScoreThrows(validatedResult.items)
       \/ transformToFrontendFormatThrows(validatedResult)
  THEN Thrown
  ELSE [outcome |-> "returned", report |-> transformToFrontendFormat(validatedResult)]

\* const validatedResult = validateCriticalRequirements(rawResult), and
\* what follows; p is what parseAIResponse returned or threw
restFromRawResult(p) ==
  IF p.outcome = "error" THEN Thrown
  ELSE IF validateCriticalRequirementsThrows(p.response) THEN Thrown
  ELSE restFromValidatedResult(validateCriticalRequirements(p.response))

\* analyzeContract from the parse on: parseAIResponse, the clamp and the
\* transformation of the text, one throwing for all that follows
analyzeContractRest(aiResponse) ==
  restFromRawResult(parseAIResponse(aiResponse, FileName))

InitRuns ==
  /\ pc = "runs"
  /\ runs = [i \in 1..MaxRuns |-> IdleRun]
  /\ calls = <<>> /\ stream = NoStream
  /\ entry = "none" /\ error = "none" /\ contentLength = 0 /\ inflight = "none"
  /\ effects = <<>> /\ events = <<>> /\ upstream = <<>> /\ message = <<>>
  /\ ScoreIdle /\ RuleIdle /\ ParseIdle

runVarsOnly == <<pc, entry, error, contentLength, inflight, effects, events, upstream,
                 message, calls, stream, scoreVars, ruleVars, parseVars>>

\* analyzeContract(content, options) up to the await of the provider call
StartRun(i) ==
  /\ pc = "runs"
  /\ runs[i].phase = "idle"
  /\ runs' = [runs EXCEPT ![i].phase = "awaiting"]
  /\ UNCHANGED runVarsOnly

\* the provider call of run i returns its text
Resume(i, text) ==
  /\ pc = "runs"
  /\ runs[i].phase = "awaiting"
  /\ runs' = [runs EXCEPT ![i].phase = "resumed", ![i].aiResponse = text]
  /\ UNCHANGED runVarsOnly

\* the rest of run i: parse, clamp, transformation, return or throw
Complete(i) ==
  /\ pc = "runs"
  /\ runs[i].phase = "resumed"
  /\ \E rest \in {analyzeContractRest(aiResponseOf(runs, i))} :
       runs' = [runs EXCEPT ![i].phase = "done", ![i].outcome = rest.outcome,
                            ![i].report = rest.report]
  /\ UNCHANGED runVarsOnly

NextRuns ==
  \/ \E i \in 1..MaxRuns : StartRun(i)
  \/ \E i \in 1..MaxRuns, text \in RunsTexts : Resume(i, text)
  \/ \E i \in 1..MaxRuns : Complete(i)

SpecRuns == InitRuns /\ [][NextRuns]_vars

\* ------------------------------------------------------------------------
\* Claims on concurrent runs
\* ------------------------------------------------------------------------
\* what a run of analyzeContract returns or throws for the text of its
\* provider call when no other run is in progress
ProducedAlone(aiResponse) == analyzeContractRest(aiResponse)

\* a step of the runs changes the locals of one run only
OneRunPerStep ==
  \A i, j \in 1..MaxRuns : (i # j /\ runs'[i] # runs[i]) => runs'[j] = runs[j]

MaxFrames == 2

DATA == "data: "
DONE == "[DONE]"

\* value[0] of the optional chains
First(v) ==
  IF v.t = "arr" /\ Len(v.kids) > 0 THEN v.kids[1]
  ELSE IF v.t = "obj" THEN Prop(v, <<"0">>)
  ELSE Undef

\* the text of an event that is yielded, when it is truthy: delta.text of a
\* content_block_delta, candidates[0].content.parts[0].text,
\* choices[0].delta.content
deltaText(p, ev) ==
  CASE p = "anthropic" ->
         IF IsStr(Prop(ev, <<"type">>), <<"content_block_delta">>)
         THEN Prop(Prop(ev, <<"delta">>), <<"text">>)
         ELSE Undef
    [] p = "gemini" ->
         Prop(First(Prop(Prop(First(Prop(ev, <<"candidates">>)), <<"content">>),
                         <<"parts">>)), <<"text">>)
    [] p = "openai" ->
         Prop(Prop(First(Prop(ev, <<"choices">>)), <<"delta">>), <<"content">>)

\* the [DONE] test, which streamGemini does not have
SkipsDone(p) == p \in {"anthropic", "openai"}

\* the body of the loop over the lines: what one line yields, as a sequence
\* of at most one fragment. An error of JSON.parse or of a property access
\* is caught and the line skipped.
decodeLine(p, line) ==
  IF Len(line) = 0 \/ line[1] # DATA THEN <<>>
  ELSE LET data == Tail(line)
       IN  IF SkipsDone(p) /\ data = <<DONE>> THEN <<>>
           ELSE LET r == JSONparse(data)
                IN  IF r.ok /\ Truthy(deltaText(p, r.v)) THEN <<deltaText(p, r.v)>>
                    ELSE <<>>

RECURSIVE split(_)
\* text.split("\n")
split(text) ==
  LET nl == {k \in 1..Len(text) : text[k] = NEWLINE}
  IN  IF nl = {} THEN <<text>>
      ELSE LET k == CHOOSE x \in nl : \A y \in nl : x <= y
           IN  <<SubSeq(text, 1, k - 1)>> \o split(SubSeq(text, k + 1, Len(text)))

RECURSIVE decodeLines(_, _, _)
decodeLines(p, lines, n) ==
  IF n = 0 THEN <<>> ELSE decodeLines(p, lines, n - 1) \o decodeLine(p, lines[n])

\* a loop that decodes the last of the lines as well and keeps nothing
pendingLinesAll(lines) == lines

\* lines after buffer = lines.pop() || "": all but the last
pendingLines(lines) == SubSeq(lines, 1, Len(lines) - 1)

\* the events of the three services: text deltas, an event without text,
\* the end marker, an event cut off, and a line that is no data line
TextDelta(p, t) ==
  CASE p = "anthropic" ->
         JObj(<< <<"type">>, <<"delta">> >>,
              <<JStr(<<"content_block_delta">>), JObj(<< <<"text">> >>, <<JStr(t)>>)>>)
    [] p = "gemini" ->
         JObj(<< <<"candidates">> >>,
              <<JArr(<<JObj(<< <<"content">> >>,
                   <<JObj(<< <<"parts">> >>, <<JArr(<<JObj(<< <<"text">> >>, <<JStr(t)>>)>>)>>)>>)>>)>>)
    [] p = "openai" ->
         JObj(<< <<"choices">> >>,
              <<JArr(<<JObj(<< <<"delta">> >>, <<JObj(<< <<"content">> >>, <<JStr(t)>>)>>)>>)>>)

OtherEvent(p) ==
  CASE p = "anthropic" -> JObj(<< <<"type">> >>, <<JStr(<<"message_stop">>)>>)
    [] p = "gemini" -> JObj(<< <<"usageMetadata">> >>, <<EmptyObj>>)
    [] p = "openai" ->
         JObj(<< <<"choices">> >>,
              <<JArr(<<JObj(<< <<"delta">> >>, <<JObj(<< <<"role">> >>, <<JStr(<<"assistant">>)>>)>>)>>)>>)

StreamLines(p) ==
  {<<DATA>> \o Stringify(TextDelta(p, t), <<>>) : t \in {<<"a">>, <<"b">>}}
    \cup {<<DATA>> \o Stringify(OtherEvent(p), <<>>),
          <<DATA, DONE>>,
          <<DATA, LBRACE, QUOTE, "type">>,
          <<"event: ping">>}

\* what ends a line of the body: the blank line of an event, or nothing when
\* the body stops there
LineEnds == {<<NEWLINE, NEWLINE>>, <<>>}

RECURSIVE JoinLines(_, _)
JoinLines(lines, n) ==
  IF n = 0 THEN <<>>
  ELSE JoinLines(lines, n - 1) \o lines[n] \o <<NEWLINE, NEWLINE>>

StreamBodies(p) ==
  {JoinLines(ls, Len(ls) - 1) \o ls[Len(ls)] \o e :
     ls \in SeqsUpTo(StreamLines(p), MaxFrames) \ {<<>>}, e \in LineEnds}

InitStream ==
  /\ pc = "stream"
  /\ stream = NoStream
  /\ calls = <<>> /\ runs = <<>>
  /\ entry = "none" /\ error = "none" /\ contentLength = 0 /\ inflight = "none"
  /\ effects = <<>> /\ events = <<>> /\ upstream = <<>> /\ message = <<>>
  /\ ScoreIdle /\ RuleIdle /\ ParseIdle

streamVarsOnly == <<pc, entry, error, contentLength, inflight, effects, events, upstream,
                    message, calls, runs, scoreVars, ruleVars, parseVars>>

\* fetch has answered ok and the reader of the body is taken
Open(p, body) ==
  /\ pc = "stream"
  /\ stream.phase = "none"
  /\ stream' = [phase |-> "reading", provider |-> p, body |-> body, pos |-> 0,
                buffer |-> <<>>, yielded |-> <<>>]
  /\ UNCHANGED streamVarsOnly

\* reader.read() returns the next n lexemes: they are appended to the
\* buffer, the buffer is split, its last piece kept, the others decoded
Read(n) ==
  /\ pc = "stream"
  /\ stream.phase = "reading"
  /\ stream.pos + n <= Len(stream.body)
  /\ LET value == SubSeq(stream.body, stream.pos + 1, stream.pos + n)
         lines == split(stream.buffer \o value)
         pending == pendingLines(lines)
     IN  stream' = [stream EXCEPT
                      !.pos = stream.pos + n,
                      !.buffer = lines[Len(lines)],
                      !.yielded = stream.yielded
                                    \o decodeLines(stream.provider, pending, Len(pending))]
  /\ UNCHANGED streamVarsOnly

\* reader.read() returns done: the loop is left
Close ==
  /\ pc = "stream"
  /\ stream.phase = "reading"
  /\ stream.pos = Len(stream.body)
  /\ stream' = [stream EXCEPT !.phase = "closed"]
  /\ UNCHANGED streamVarsOnly

NextStream ==
  \/ \E p \in Providers : \E body \in StreamBodies(p) : Open(p, body)
  \/ \E n \in 1..(Len(stream.body) - stream.pos) : Read(n)
  \/ Close

SpecStream == InitStream /\ [][NextStream]_vars

\* ------------------------------------------------------------------------
\* Claims on streaming
\* ------------------------------------------------------------------------
\* the text deltas of the data lines of a body, in order: each line of the
\* whole body taken on its own
DocDeltas(p, body) ==
  LET lines == split(body) IN decodeLines(p, lines, Len(lines))

\* the body ends with a line break
IsTerminated(body) == body # <<>> /\ body[Len(body)] = NEWLINE

\* C23: when the stream has ended, the fragments yielded are, in order, the
\* text deltas of all the well-formed text-delta data lines of the body,
\* however the body was split into reads, the last line included; an event
\* without text, the end marker and a malformed line yield nothing and do
\* not end the stream.
C23_StreamDecode ==
  stream.phase = "closed" => stream.yielded = DocDeltas(stream.provider, stream.body)

\* C23 for the bodies whose last line is ended by a line break
C23_TerminatedBodies ==
  (stream.phase = "closed" /\ IsTerminated(stream.body)) =>
    stream.yielded = DocDeltas(stream.provider, stream.body)

\* whatever has been read, the fragments yielded are the text deltas of the
\* lines read so far that are complete
C23_CompleteLines ==
  stream.phase \in {"reading", "closed"} =>
    LET lines == split(SubSeq(stream.body, 1, stream.pos))
    IN  stream.yielded = decodeLines(stream.provider, lines, Len(lines) - 1)

\* ------------------------------------------------------------------------
\* Claims on the result of the recovery
\* ------------------------------------------------------------------------
\* parseAIResponse left its try block without a result and recovered items
OnRecoveryPath ==
  /\ pc = "parsed"
  /\ ~StrictOk(extractJsonString(responseText))
  /\ parsed.outcome = "ok"

\* the warning that opens the summary of a partial result of n items
PartialWarning(n) == <<"(!) Resultats partiels (", ToString(n), " items recuperes). ">>

\* C24: on the recovery path parseAIResponse returns isPartial = true,
\* recoveredCount the number of items returned, a score that is
\* calculateScoreFromItems of these items whatever score the text asserts,
\* and a summary that begins with the warning of partial results stating
\* that number.
C24_PartialResult ==
  OnRecoveryPath =>
    LET its == parsed.response.items
        summary == parsed.response.executiveSummary
    IN  /\ parsed.isPartial = TRUE
        /\ Len(its) > 0
        /\ parsed.recoveredCount = Len(its)
        /\ parsed.response.score = calculateScoreFromItems(its)
        /\ summary.t = "str"
        /\ Len(summary.s) > Len(PartialWarning(Len(its)))
        /\ SubSeq(summary.s, 1, Len(PartialWarning(Len(its)))) = PartialWarning(Len(its))

\* the output stopped after the score of the payload was written, and the
\* score of the partial result is not the one the text asserts
C24_Witness ==
  /\ OnRecoveryPath
  /\ cut >= ItemsClose + Len(spacing) + 6
  /\ Len(parsed.response.items) = 2
  /\ parsed.response.score # RoundedClamped(Prop(payload, <<"score">>).n2)
  /\ RoundedClamped(Prop(payload, <<"score">>).n2) = 85

\* the recovered items that stand for items written in full before the cut
RecoveredWhole ==
  LET n == Len(parsed.response.items)
      c == CompleteBefore(cut)
  IN  1..(IF n < c THEN n ELSE c)

HasQuote(v) == v.t = "str" /\ \E i \in 1..Len(v.s) : v.s[i] = QUOTE

\* the comment and the foundClause of recovered item i are the strings the
\* payload holds for item i
SameStrings(i) ==
  /\ Prop(parsed.response.items[i], K_comment) = Prop(PayloadItems[i], K_comment)
  /\ Prop(parsed.response.items[i], K_foundClause) = Prop(PayloadItems[i], K_foundClause)

\* C25: on the recovery path the comment and the foundClause of a recovered
\* item are the values of the JSON strings of the text: the whole string up
\* to the quote that closes it, with its escapes replaced; a comment that
\* holds an escaped quote is not cut short.
C25_RecoveredStrings ==
  (OnRecoveryPath /\ ~HasFence(payload)) => \A i \in RecoveredWhole : SameStrings(i)

\* C25 for the items whose comment and foundClause hold no quote
C25_QuoteFreeStrings ==
  (OnRecoveryPath /\ ~HasFence(payload)) =>
    \A i \in RecoveredWhole :
      (~HasQuote(Prop(PayloadItems[i], K_comment))
         /\ ~HasQuote(Prop(PayloadItems[i], K_foundClause))) => SameStrings(i)

\* a recovered comment ends at the first quote of the comment in the text,
\* escaped or not
C25_CutAtFirstQuote ==
  (OnRecoveryPath /\ ~HasFence(payload)) =>
    \A i \in RecoveredWhole :
      HasQuote(Prop(PayloadItems[i], K_comment)) =>
        Prop(parsed.response.items[i], K_comment) = JStr(<<"voir", BSLASH>>)

\* ------------------------------------------------------------------------
\* Claims on the synthesized recommendation
\* ------------------------------------------------------------------------
IsText(v) == v.t = "str" /\ v.s # <<>>

\* C26: generateAutoRecommendation returns nothing for COMPLIANT, IMPLICIT
\* and NA and a text that is not empty for ABSENT and PARTIAL; so the
\* finding of every item of a catalog requirement whose status is ABSENT or
\* PARTIAL, PARTIAL by the clamp included, carries a recommendation that is
\* not empty, also when the completion service proposed no clause for it.
C26_RecommendationForGaps ==
  pc = "reported" =>
    \A i \in 1..Len(validated.items) :
      LET item == validated.items[i]
          status == Prop(item, K_status)
      IN  ~IsUnknownId(item) =>
            /\ (IsStr(status, COMPLIANT) \/ IsStr(status, IMPLICIT) \/ IsStr(status, NA))
                 => SynthesizedRecommendation(item) = Undef
            /\ (IsStr(status, ABSENT) \/ IsStr(status, PARTIAL))
                 => /\ IsText(SynthesizedRecommendation(item))
                    /\ IsText(report.findings[i].recommendation)

\* an item made PARTIAL by the clamp and an ABSENT one, no clause proposed
\* for either: both findings carry the synthesized recommendation
C26_Witness ==
  /\ pc = "reported"
  /\ validated.recommendedClauses = JArr(<<>>)
  /\ Len(validated.items) = 2
  /\ IsStr(Prop(analysis.items[1], K_requirementId), <<"II.4">>)
  /\ IsStr(Prop(analysis.items[1], K_status), IMPLICIT)
  /\ IsStr(Prop(validated.items[1], K_status), PARTIAL)
  /\ report.findings[1].recommendation = SynthesizedRecommendation(validated.items[1])
  /\ IsStr(Prop(validated.items[2], K_requirementId), <<"I.2">>)
  /\ IsStr(Prop(validated.items[2], K_status), ABSENT)
  /\ IsText(report.findings[2].recommendation)

\* ------------------------------------------------------------------------
\* Claims on the items of a result
\* ------------------------------------------------------------------------
\* the run returned: a report, or the clamped analysis for analyzeContractRaw
Returned == pc = "returned" /\ parsed.outcome = "ok"

\* no two elements of a sequence of ids are the same string
PairwiseDistinct(ids) ==
  \A i, j \in 1..Len(ids) : (i # j /\ ids[i].t = "str") => ids[i] # ids[j]

\* every requirement of the catalog has its id in the sequence
CoversCatalog(ids) ==
  \A k \in 1..Len(CHECKLIST) : \E i \in 1..Len(ids) : ids[i] = JStr(CHECKLIST[k].id)

ItemIds == [i \in 1..Len(validated.items) |-> Prop(validated.items[i], K_requirementId)]
FindingIds == [i \in 1..Len(report.findings) |-> report.findings[i].requirementId]

\* C27: an analysis holds exactly one result per requirement of the
\* catalog: no two of its items, and no two findings of its report, have
\* the same requirementId (and each of the 35 requirements has one).
C27_OneResultPerRequirement ==
  Returned =>
    /\ PairwiseDistinct(ItemIds)
    /\ entry # "analyzeContractRaw" => PairwiseDistinct(FindingIds)

\* the other half of C27: each requirement of the catalog has an item and
\* a finding
C27_AllRequirements ==
  Returned =>
    /\ CoversCatalog(ItemIds)
    /\ entry # "analyzeContractRaw" => CoversCatalog(FindingIds)

\* the items returned are the items of the reply and the findings are one
\* per item, of the same id, in the same order: nothing is added, merged or
\* dropped
C27_OneFindingPerItem ==
  (Returned /\ cut = 0) =>
    /\ Len(validated.items) = Len(PayloadItems)
    /\ \A i \in 1..Len(PayloadItems) :
         Prop(validated.items[i], K_requirementId) = Prop(PayloadItems[i], K_requirementId)
    /\ entry # "analyzeContractRaw" => FindingIds = ItemIds

\* an item of the shape of AnalysisResultItem: one of the five statuses, a
\* string for its requirementId and a string for its comment
IsResultItem(item) ==
  /\ Prop(item, K_status).t = "str" /\ Prop(item, K_status).s \in RequirementStatus
  /\ Prop(item, K_requirementId).t = "str"
  /\ Prop(item, K_comment).t = "str"

\* C28: every item parseAIResponse returns, from the strict parse or from
\* the recovery, has one of the five statuses and a string for its
\* requirementId and for its comment, so no other status reaches the clamp,
\* the score or the transformer.
C28_ItemsWellTyped ==
  (PastNetwork /\ parsed.outcome = "ok") =>
    \A i \in 1..Len(parsed.response.items) : IsResultItem(parsed.response.items[i])

\* C28 for the items of the recovery
C28_RecoveredItems ==
  (PastNetwork /\ parsed.outcome = "ok" /\ parsed.isPartial) =>
    /\ Len(parsed.response.items) > 0
    /\ \A i \in 1..Len(parsed.response.items) : IsResultItem(parsed.response.items[i])

\* the strict parse returns the items of the reply untouched, whatever they are
C28_StrictItemsAsReplied ==
  (PastNetwork /\ parsed.outcome = "ok" /\ ~parsed.isPartial) =>
    parsed.response.items = PayloadItems

\* ------------------------------------------------------------------------
\* Claims on the terminal event
\* ------------------------------------------------------------------------
TerminalEvents == SelectSeq(events, IsTerminalEvent)

\* the run of analyzeContractWithEvents has ended
EventRunEnded == entry = "analyzeContractWithEvents" /\ pc \in {"returned", "thrown"}

\* exactly one terminal event, the last of the events: done for a run that
\* returned, error for a run that threw
EndsWithItsTerminalEvent ==
  /\ Len(TerminalEvents) = 1
  /\ IsTerminalEvent(events[Len(events)])
  /\ pc = "returned" <=> events[Len(events)].type = "done"
  /\ pc = "thrown" <=> events[Len(events)].type = "error"

\* C29: every run of analyzeContractWithEvents emits exactly one terminal
\* event and nothing after it: done if and only if the run returns a
\* report, error if and only if it fails, whatever the step that failed
\* (validation, unknown provider, provider call, parsing, clamp,
\* transformation).
C29_OneTerminalEvent == EventRunEnded => EndsWithItsTerminalEvent

\* the run threw in transformToFrontendFormat, after the event of step 4
ThrewInTransformation ==
  pc = "thrown" /\ events # <<>> /\ events[Len(events)] = StepEvent(4)

\* C29 for the runs that do not fail in the transformation
C29_ExceptTransformation ==
  (EventRunEnded /\ ~ThrewInTransformation) => EndsWithItsTerminalEvent

\* a run that is not over has emitted no terminal event
C29_NoEarlyTerminalEvent ==
  (entry = "analyzeContractWithEvents" /\ pc \notin {"returned", "thrown"}) =>
    TerminalEvents = <<>>

\* ------------------------------------------------------------------------
\* Claims on the score of a partial result
\* ------------------------------------------------------------------------
\* analyzeContractRaw returned an analysis that parseAIResponse recovered
RawPartialReturned ==
  entry = "analyzeContractRaw" /\ pc = "returned" /\ parsed.isPartial

\* C30: the score of every analysis analyzeContractRaw returns from the
\* recovery is calculateScoreFromItems of the items it returns, those after
\* the clamp, not of the items as they were recovered.
C30_ScoreOfReturnedItems ==
  RawPartialReturned => validated.score = calculateScoreFromItems(validated.items)

\* the score returned is the score of the items as recovered, before the clamp
C30_ScoreOfRecoveredItems ==
  RawPartialReturned => validated.score = calculateScoreFromItems(parsed.response.items)

\* C30 for the results none of whose items the clamp changed
C30_WithoutCorrection ==
  (RawPartialReturned /\ validated.items = parsed.response.items) =>
    validated.score = calculateScoreFromItems(validated.items)

====
